---- MODULE Spec2Model ----
(***************************************************************************)
(* Verification model of the Twilio Media Streams <-> OpenAI Realtime      *)
(* bridges of this repository.  The repository holds several variants of   *)
(* the same bridge; `variant` says which one is running:                   *)
(*   "bridge"    the Bridge class and the /media upgrade of src/server.js  *)
(*   "part_004"  the buffering bridge (pendingAudio) of part_004           *)
(*   "part_005"  the paced bridge (outBuffer + pacer) of part_005          *)
(*   "first"     the app.ws("/media") bridge of src/server.js, lines 31-135 *)
(*   "part_000"  the Fastify bridge of part_000, lines 1-206                *)
(*   "part_000b" the express-ws bridge of part_000, lines 216-322           *)
(* One step of the model is one run of one event-loop callback (socket     *)
(* event handler or timer callback): node runs callbacks to completion.    *)
(* `out` holds what the last callback did: the send() calls it made on     *)
(* each socket, in order, and the other calls that matter (close(), the    *)
(* TwiML update, the summary).  A close() of a Bridge's OpenAI socket is   *)
(* also entered in out.oa, as type "close", to keep its place among the    *)
(* send() calls.                                                           *)
(***************************************************************************)
EXTENDS Integers, Sequences, FiniteSets, TLC

VARIABLES
    variant,      \* which bridge variant is running
    env,          \* process configuration read at start-up
    twilioWs,     \* readyState of the accepted Twilio socket
    bridge,       \* server.js: index into bridges of `bridge`, 0 = null
    bridges,      \* server.js: every Bridge object constructed so far
    hist,         \* server.js: per Bridge, what it has done so far
    twCloseCalls, \* close() calls made on the Twilio socket so far
    streamSid,    \* part_004/005: let streamSid
    openaiReady,  \* part_004/005: let openaiReady
    greeted,      \* part_004/005: let greeted
    openaiWs,     \* part_004/005: readyState of openaiWs
    pendingAudio, \* part_004: const pendingAudio = []
    outBuffer,    \* part_005: const outBuffer = []
    paceTimer,    \* part_005: let paceTimer (TRUE = an interval is running)
    arrived,      \* part_004/005: audio deltas received from OpenAI so far
    twLog,        \* part_004: every delta sent to Twilio so far, in order
    starts,       \* part_004/005: 'start' events handled so far (2 = two or more)
    inflight,     \* part_004/005: response.create sent since the last done
    conns,        \* first bridge: per accepted /media connection, its two sockets
    moduleOpenaiWs, \* first bridge: the connection whose socket `let openaiWs` holds
    running,      \* first bridge: the node process has not died of an exception
    buffer,       \* part_000b: let buffer = [] (caller frames by arrival number)
    received,     \* part_000b: caller media frames with a payload received so far
    oaLog,        \* part_000b: caller frames sent on the open OpenAI socket, in order
    timers,       \* part_000: the setTimeout calls of openai.on("open") still pending
    updates,      \* part_000: session.update messages sent so far (2 = two or more)
    listening,    \* the HTTP server has been started (app.listen / server.listen)
    codec,        \* a byte taken through muLawDecode and muLawEncode of server.js
    out           \* what the last callback did

bridgeVars == <<bridge, bridges, hist, twCloseCalls>>

plainVars == <<streamSid, openaiReady, greeted, openaiWs, pendingAudio, outBuffer,
               paceTimer, arrived, twLog, starts, inflight>>

firstVars == <<conns, moduleOpenaiWs, running>>

p0Vars == <<buffer, received, oaLog, timers, updates, listening>>

vars == <<variant, env, twilioWs, bridgeVars, plainVars, firstVars, p0Vars, codec, out>>

(***************************************************************************)
(* Bounds                                                                  *)
(***************************************************************************)
MaxPayload == 2     \* caller frames carry up to MaxPayload * PayloadUnit bytes
MaxTexts == 1     \* transcript lines kept in summaryTexts
MaxSamples == 1     \* an audio delta carries 0..MaxSamples * SampleUnit samples

(***************************************************************************)
(* Small helpers                                                           *)
(***************************************************************************)
Min(a, b) == IF a < b THEN a ELSE b

Cap2(n) == Min(n, 2)

RECURSIVE CountOf(_, _)
CountOf(s, t) ==
    IF s = <<>> THEN 0
    ELSE (IF Head(s) = t THEN 1 ELSE 0) + CountOf(Tail(s), t)

Types(s) == [k \in 1..Len(s) |-> s[k].type]

Has(s, t) == \E k \in 1..Len(s) : s[k] = t

\* position of the first t in s, Len(s)+1 when there is none
FirstPos(s, t) ==
    IF Has(s, t) THEN CHOOSE k \in 1..Len(s) : s[k] = t /\ \A j \in 1..(k-1) : s[j] # t
    ELSE Len(s) + 1

NoOut == [by |-> 0, ev |-> "none", oa |-> <<>>, tw |-> <<>>, calls |-> <<>>]

\* the effects of a callback that handled event e and did nothing
On(e) == [NoOut EXCEPT !.ev = e]

OaMsg(t, n) == [type |-> t, bytes |-> n]

TwMsg(e, sid, p) == [event |-> e, streamSid |-> sid, payload |-> p]

(***************************************************************************)
(* server.js, lines 532-1070: the Bridge variant                           *)
(***************************************************************************)
commitThresholdBytes == 16000

PayloadUnit == 2000

SampleUnit == 320

\* sample rates a session.created message may announce
Rates == {24000}

\* resamplePCM16: the length of the output for an input of n samples
resampleLen(n, inRate, outRate) ==
    IF inRate = outRate THEN n ELSE (n * outRate) \div inRate

\* ulawBufferToPcm16Buffer16k: bytes of PCM16 made from n mu-law bytes
ulawToPcm16Len(n) == 2 * resampleLen(n, 8000, 16000)

\* pcm16ToUlawB64FromPCM16Int16: mu-law bytes made from n PCM16 samples
pcm16ToUlawLen(n, inRate) == resampleLen(n, inRate, 8000)

\* A context is what a method of Bridge works on: the object's fields (b),
\* the Twilio socket it shares with the connection (tw) and the effects of
\* the running callback (o).
Ctx(i, e) == [b |-> bridges[i], tw |-> twilioWs, o |-> [On(e) EXCEPT !.by = i]]

SendOa(c, m) == [c EXCEPT !.o.oa = Append(@, m)]

SendTw(c, m) == [c EXCEPT !.o.tw = Append(@, m)]

Call(c, name) == [c EXCEPT !.o.calls = Append(@, name)]

\* this.openaiWs.close(...)
closeOpenAI(c) ==
    [Call(c, "openaiWs.close") EXCEPT !.b.openaiWs = "CLOSING",
                                      !.o.oa = Append(@, OaMsg("close", 0))]

_twilioMedia(c, ulawLen) ==
    IF c.b.fallbackTriggered THEN c
    ELSE IF c.tw = "OPEN" THEN SendTw(c, TwMsg("media", c.b.streamSid, ulawLen))
    ELSE c

_twilioMark(c) ==
    IF c.tw = "OPEN" THEN SendTw(c, TwMsg("mark", c.b.streamSid, 0)) ELSE c

_clearCommitTimer(c) == [c EXCEPT !.b.commitTimer = FALSE]

_scheduleCommit(c) ==
    IF c.b.fallbackTriggered THEN c
    ELSE [_clearCommitTimer(c) EXCEPT !.b.commitTimer = TRUE]

_requestOpenAIResponse(c) ==
    IF c.b.fallbackTriggered THEN c
    ELSE IF c.b.openaiWs # "OPEN" THEN c
    ELSE SendOa(c, OaMsg("response.create", 0))

\* _commitAudioBuffer without the early return for an empty buffer
_commitAudioBuffer_empty(c, force, requestResponse) ==
    IF c.b.fallbackTriggered THEN c
    ELSE IF c.b.openaiWs # "OPEN" THEN c
    ELSE LET c1 == _clearCommitTimer(c)
             c2 == SendOa(c1, OaMsg("input_audio_buffer.commit", 0))
             c3 == [c2 EXCEPT !.b.bytesSinceCommit = 0]
         IN  IF requestResponse THEN _requestOpenAIResponse(c3) ELSE c3

_commitAudioBuffer(c, force, requestResponse) ==
    IF c.b.fallbackTriggered THEN c
    ELSE IF c.b.openaiWs # "OPEN" THEN c
    ELSE IF c.b.bytesSinceCommit = 0 THEN c
    ELSE LET c1 == _clearCommitTimer(c)
             c2 == SendOa(c1, OaMsg("input_audio_buffer.commit", 0))
             c3 == [c2 EXCEPT !.b.bytesSinceCommit = 0]
         IN  IF requestResponse THEN _requestOpenAIResponse(c3) ELSE c3

\* _handleMisunderstanding without the repromptedAfterMisunderstanding test
_handleMisunderstanding_always(c) ==
    _requestOpenAIResponse([c EXCEPT !.b.repromptedAfterMisunderstanding = TRUE])

_handleMisunderstanding(c) ==
    IF ~c.b.repromptedAfterMisunderstanding
    THEN _requestOpenAIResponse([c EXCEPT !.b.repromptedAfterMisunderstanding = TRUE])
    ELSE c

_sendFallbackAndClose(c) ==
    IF c.b.fallbackTriggered THEN c
    ELSE LET c1 == _clearCommitTimer([c EXCEPT !.b.fallbackTriggered = TRUE,
                                               !.b.closedByStop = TRUE,
                                               !.b.openaiReady = FALSE])
             c2 == IF c1.b.openaiWs = "OPEN" THEN closeOpenAI(c1) ELSE c1
             c3 == IF env.twilioClient /\ c2.b.callSid # ""
                   THEN Call(c2, "calls.update")
                   ELSE c2
         IN  IF c3.tw = "OPEN"
             THEN Call([c3 EXCEPT !.tw = "CLOSING"], "twilioWs.close")
             ELSE c3

finishAndTextSummary(c) ==
    LET c1 == Call(c, "finishAndTextSummary")
    IN  IF env.twilioClient /\ env.sms /\ Len(c.b.summaryTexts) > 0
        THEN Call(c1, "messages.create")
        ELSE c1

\* the fields set by the constructor, before its last two statements
NewBridge(sid, callSid) ==
    [ streamSid                       |-> sid,
      callSid                         |-> callSid,
      summaryTexts                    |-> <<>>,
      openaiWs                        |-> "null",
      openaiOutputSampleRate          |-> 16000,
      openaiReady                     |-> FALSE,
      fallbackTriggered               |-> FALSE,
      closedByStop                    |-> FALSE,
      warnedOpenAiNotReady            |-> FALSE,
      bytesSinceCommit                |-> 0,
      commitTimer                     |-> FALSE,
      repromptedAfterMisunderstanding |-> FALSE ]

\* new WebSocket(OPENAI_WS_URL, { headers }): the socket starts CONNECTING
_initOpenAI(c) == Call([c EXCEPT !.b.openaiWs = "CONNECTING"], "new WebSocket")

constructor(c) ==
    IF ~env.apiKey THEN _sendFallbackAndClose(c) ELSE _initOpenAI(c)

NewHist ==
    [ configured      |-> FALSE,  \* session.update has been sent
      inflight        |-> 0,      \* response.create sent since the last response.done
      summaryCalls    |-> 0,      \* finishAndTextSummary() calls
      fallbackNotices |-> 0,      \* calls(callSid).update({twiml}) calls
      oaCloseCalls    |-> 0 ]     \* close() calls on this.openaiWs

\* the record of what a callback did, folded into the history of its Bridge
Fold(h, o, done) ==
    [ configured      |-> h.configured \/ Has(Types(o.oa), "session.update"),
      inflight        |-> Cap2((IF done THEN 0 ELSE h.inflight)
                               + CountOf(Types(o.oa), "response.create")),
      summaryCalls    |-> Cap2(h.summaryCalls + CountOf(o.calls, "finishAndTextSummary")),
      fallbackNotices |-> Cap2(h.fallbackNotices + CountOf(o.calls, "calls.update")),
      oaCloseCalls    |-> Cap2(h.oaCloseCalls + CountOf(o.calls, "openaiWs.close")) ]

\* a callback of Bridge i ends in context c; done: it handled response.done
Commit(i, c, done) ==
    /\ bridges' = [bridges EXCEPT ![i] = c.b]
    /\ twilioWs' = c.tw
    /\ out' = c.o
    /\ hist' = [hist EXCEPT ![i] = Fold(@, c.o, done)]
    /\ twCloseCalls' = Cap2(twCloseCalls + CountOf(c.o.calls, "twilioWs.close"))
    /\ UNCHANGED <<variant, env, firstVars, p0Vars, codec, bridge, plainVars>>

IsBridge == variant = "bridge"

Live(ws) == ws \in {"OPEN", "CLOSING"}

\* wss.on("connection") / ws.on("message"): an unparseable frame
BridgeTwilioUnparseable ==
    /\ IsBridge /\ Live(twilioWs)
    /\ out' = On("twilio:unparseable")
    /\ UNCHANGED <<variant, env, firstVars, p0Vars, codec, twilioWs, bridgeVars, plainVars>>

\* ws.on("message"), obj.event === "start": bridge = new Bridge(ws, obj)
BridgeTwilioStart(sid, callSid) ==
    /\ IsBridge /\ Live(twilioWs)
    /\ LET i == Len(bridges) + 1
           c == constructor([b |-> NewBridge(sid, callSid), tw |-> twilioWs,
                             o |-> [On("start") EXCEPT !.by = i]])
       IN  /\ bridges' = Append(bridges, c.b)
           /\ bridge' = i
           /\ twilioWs' = c.tw
           /\ out' = c.o
           /\ hist' = Append(hist, Fold(NewHist, c.o, FALSE))
           /\ twCloseCalls' = Cap2(twCloseCalls + CountOf(c.o.calls, "twilioWs.close"))
    /\ UNCHANGED <<variant, env, firstVars, p0Vars, codec, plainVars>>

\* case "media" committing only above the threshold (> for >=)
handleMedia_above(c, n) ==
    IF c.b.fallbackTriggered THEN c
    ELSE IF ~c.b.openaiReady \/ c.b.openaiWs # "OPEN"
         THEN [c EXCEPT !.b.warnedOpenAiNotReady = TRUE]
    ELSE IF n = 0 THEN c
    ELSE LET len == ulawToPcm16Len(n)
             c1  == SendOa(c, OaMsg("input_audio_buffer.append", len))
             c2  == [c1 EXCEPT !.b.bytesSinceCommit = @ + len]
             c3  == _scheduleCommit(c2)
         IN  IF c3.b.bytesSinceCommit > commitThresholdBytes
             THEN _commitAudioBuffer(c3, FALSE, TRUE)
             ELSE c3

\* case "media" without its two early returns
handleMedia_noGuards(c, n) ==
    IF n = 0 THEN c
    ELSE LET len == ulawToPcm16Len(n)
             c1  == SendOa(c, OaMsg("input_audio_buffer.append", len))
         IN  [c1 EXCEPT !.b.bytesSinceCommit = Min(@ + len, commitThresholdBytes)]

\* case "media" without the test that the OpenAI socket is ready
handleMedia_noReady(c, n) ==
    IF c.b.fallbackTriggered THEN c
    ELSE IF n = 0 THEN c
    ELSE LET len == ulawToPcm16Len(n)
             c1  == SendOa(c, OaMsg("input_audio_buffer.append", len))
             c2  == [c1 EXCEPT !.b.bytesSinceCommit = @ + len]
             c3  == _scheduleCommit(c2)
         IN  IF c3.b.bytesSinceCommit >= commitThresholdBytes
             THEN _commitAudioBuffer(c3, FALSE, TRUE)
             ELSE c3

\* handleTwilioMessage, case "media"; n = mu-law bytes in the payload, 0 = none
handleMedia(c, n) ==
    IF c.b.fallbackTriggered THEN c
    ELSE IF ~c.b.openaiReady \/ c.b.openaiWs # "OPEN"
         THEN [c EXCEPT !.b.warnedOpenAiNotReady = TRUE]
    ELSE IF n = 0 THEN c
    ELSE LET len == ulawToPcm16Len(n)
             c1  == SendOa(c, OaMsg("input_audio_buffer.append", len))
             c2  == [c1 EXCEPT !.b.bytesSinceCommit = @ + len]
             c3  == _scheduleCommit(c2)
         IN  IF c3.b.bytesSinceCommit >= commitThresholdBytes
             THEN _commitAudioBuffer(c3, FALSE, TRUE)
             ELSE c3

\* case "stop" closing the OpenAI socket before it commits
handleStop_closeFirst(c) ==
    LET c1 == _clearCommitTimer([c EXCEPT !.b.closedByStop = TRUE])
        c2 == IF c1.b.openaiWs = "OPEN" THEN closeOpenAI(c1) ELSE c1
        c3 == _commitAudioBuffer(c2, TRUE, FALSE)
    IN  finishAndTextSummary(c3)

\* handleTwilioMessage, case "stop"
handleStop(c) ==
    LET c1 == _clearCommitTimer([c EXCEPT !.b.closedByStop = TRUE])
        c2 == _commitAudioBuffer(c1, TRUE, FALSE)
        c3 == IF c2.b.openaiWs = "OPEN" THEN closeOpenAI(c2) ELSE c2
    IN  finishAndTextSummary(c3)

\* the switch with its default branch falling into case "stop"
handleTwilioMessage_defaultStops(c, ev, n) ==
    CASE ev = "media" -> handleMedia(c, n)
      [] OTHER        -> handleStop(c)

handleTwilioMessage(c, ev, n) ==
    CASE ev = "media" -> handleMedia(c, n)
      [] ev = "stop"  -> handleStop(c)
      [] OTHER        -> c

\* "mark" stands for the events the switch names and ignores (connected, mark,
\* dtmf), "other" for an event it does not name
TwilioEvents == {"media", "stop", "mark", "other"}

\* ws.on("message"), any other event: bridge.handleTwilioMessage(obj) if bridge
BridgeTwilioMessage(ev, n) ==
    /\ IsBridge /\ Live(twilioWs)
    /\ ev = "media" \/ n = 0
    /\ IF bridge = 0
       THEN /\ out' = On(ev)
            /\ UNCHANGED <<variant, env, firstVars, p0Vars, codec, twilioWs, bridgeVars, plainVars>>
       ELSE Commit(bridge, handleTwilioMessage(Ctx(bridge, ev), ev, n), FALSE)

\* ws.on("close"): the current bridge's commit timer is cleared
BridgeTwilioClose ==
    /\ IsBridge /\ Live(twilioWs)
    /\ twilioWs' = "CLOSED"
    /\ bridges' = IF bridge = 0 THEN bridges
                  ELSE [bridges EXCEPT ![bridge].commitTimer = FALSE]
    /\ out' = On("twilio:close")
    /\ UNCHANGED <<variant, env, firstVars, p0Vars, codec, bridge, hist, twCloseCalls, plainVars>>

\* ws.on("error"): logged; the socket is on its way down
BridgeTwilioError ==
    /\ IsBridge /\ Live(twilioWs)
    /\ twilioWs' = "CLOSING"
    /\ out' = On("twilio:error")
    /\ UNCHANGED <<variant, env, firstVars, p0Vars, codec, bridgeVars, plainVars>>

\* openaiWs.on("open")
BridgeOpenAIOpen(i) ==
    /\ IsBridge /\ i \in 1..Len(bridges)
    /\ bridges[i].openaiWs = "CONNECTING"
    /\ LET c0 == Ctx(i, "open")
           c1 == [c0 EXCEPT !.b.openaiWs = "OPEN",
                            !.b.openaiReady = TRUE,
                            !.b.warnedOpenAiNotReady = FALSE]
           c2 == SendOa(c1, OaMsg("session.update", 0))
       IN  Commit(i, _requestOpenAIResponse(c2), FALSE)

\* openaiWs.on("ping")
BridgeOpenAIPing(i) ==
    /\ IsBridge /\ i \in 1..Len(bridges)
    /\ Live(bridges[i].openaiWs)
    /\ LET c == Ctx(i, "ping")
       IN  Commit(i, IF c.b.openaiWs = "OPEN" THEN Call(c, "pong") ELSE c, FALSE)

\* the messages OpenAI may deliver: type and the one argument the handler
\* looks at (sample rate, transcript or delta present, samples in the delta)
OpenAIMsgs ==
    [type : {"unparseable", "other", "response.audio.done", "response.done",
             "conversation.item.input_audio_transcription.failed",
             "response.error"}, arg : {0}]
    \cup [type : {"session.created"}, arg : Rates \cup {0}]
    \cup [type : {"conversation.item.input_audio_transcription.completed",
                  "response.text.delta"}, arg : {0, 1}]
    \cup [type : {"response.audio.delta"}, arg : {k * SampleUnit : k \in 0..MaxSamples}]

\* the message handler forwarding audio with a bare twilioWs.send(), without
\* the fallbackTriggered test of the handler and of _twilioMedia
\* the handler closing the OpenAI socket on a frame JSON.parse rejects
onOpenAIMessage_badFrameCloses(c, msg) ==
    IF msg.type = "unparseable" THEN closeOpenAI(c) ELSE c

onOpenAIMessage_bareSend(c, msg) ==
    IF msg.type = "response.audio.delta" /\ msg.arg # 0
    THEN SendTw(c, TwMsg("media", c.b.streamSid,
                         pcm16ToUlawLen(msg.arg, c.b.openaiOutputSampleRate)))
    ELSE c

onOpenAIMessage(c, msg) ==
    IF c.b.fallbackTriggered THEN c
    ELSE CASE msg.type = "unparseable" -> c
           [] msg.type = "session.created" /\ msg.arg # 0 ->
                [c EXCEPT !.b.openaiOutputSampleRate = msg.arg]
           [] msg.type = "conversation.item.input_audio_transcription.failed" ->
                _handleMisunderstanding(c)
           [] msg.type = "response.error" ->
                _handleMisunderstanding(c)
           [] msg.type = "conversation.item.input_audio_transcription.completed"
              /\ msg.arg # 0 ->
                [c EXCEPT !.b.summaryTexts = Append(@, "Caller"),
                          !.b.repromptedAfterMisunderstanding = FALSE]
           [] msg.type = "response.text.delta" /\ msg.arg # 0 ->
                [c EXCEPT !.b.summaryTexts = Append(@, "Rachel")]
           [] msg.type = "response.audio.delta" /\ msg.arg # 0 ->
                _twilioMedia(c, pcm16ToUlawLen(msg.arg, c.b.openaiOutputSampleRate))
           [] msg.type \in {"response.audio.done", "response.done"} ->
                _twilioMark(c)
           [] OTHER -> c

\* openaiWs.on("message")
BridgeOpenAIMessage(i, msg) ==
    /\ IsBridge /\ i \in 1..Len(bridges)
    /\ Live(bridges[i].openaiWs)
    /\ msg.type \in {"conversation.item.input_audio_transcription.completed",
                     "response.text.delta"} /\ msg.arg # 0
         => Len(bridges[i].summaryTexts) < MaxTexts
    /\ Commit(i, onOpenAIMessage(Ctx(i, msg.type), msg),
              msg.type = "response.done")

\* openaiWs.on("error"): ws has left CONNECTING/OPEN before it emits 'error'
BridgeOpenAIError(i) ==
    /\ IsBridge /\ i \in 1..Len(bridges)
    /\ bridges[i].openaiWs \in {"CONNECTING", "OPEN", "CLOSING"}
    /\ LET c0 == Ctx(i, "openai:error")
       IN  Commit(i, _sendFallbackAndClose([c0 EXCEPT !.b.openaiWs = "CLOSING"]), FALSE)

\* openaiWs.on("close")
BridgeOpenAIClose(i) ==
    /\ IsBridge /\ i \in 1..Len(bridges)
    /\ Live(bridges[i].openaiWs)
    /\ LET c0 == Ctx(i, "openai:close")
           c1 == [c0 EXCEPT !.b.openaiWs = "CLOSED", !.b.openaiReady = FALSE]
       IN  Commit(i, IF ~c1.b.fallbackTriggered /\ ~c1.b.closedByStop
                     THEN _sendFallbackAndClose(c1) ELSE c1, FALSE)

\* the setTimeout callback of _scheduleCommit
BridgeCommitTimer(i) ==
    /\ IsBridge /\ i \in 1..Len(bridges)
    /\ bridges[i].commitTimer
    /\ LET c0 == Ctx(i, "timer:commit")
       IN  Commit(i, _commitAudioBuffer([c0 EXCEPT !.b.commitTimer = FALSE], TRUE, TRUE), FALSE)

NULL == "null"

\* the variables of the other variants, which the Bridge variant never touches
PlainIdle ==
    /\ streamSid = NULL
    /\ openaiReady = FALSE
    /\ greeted = FALSE
    /\ openaiWs = "null"
    /\ pendingAudio = <<>>
    /\ outBuffer = <<>>
    /\ paceTimer = FALSE
    /\ arrived = 0
    /\ twLog = <<>>
    /\ starts = 0
    /\ inflight = 0

\* the variables of the first bridge, which the other variants never touch
FirstIdle ==
    /\ conns = <<>>
    /\ moduleOpenaiWs = 0
    /\ running = TRUE

\* the variables of the part_000 bridges, which the other variants never touch
P0Idle ==
    /\ buffer = <<>>
    /\ received = 0
    /\ oaLog = <<>>
    /\ timers = {}
    /\ updates = 0
    /\ listening = TRUE

\* no byte is being converted
CodecIdle == codec = [stage |-> "idle", uVal |-> 0, pcmVal |-> 0, back |-> 0]

BridgeIdle ==
    /\ bridge = 0
    /\ bridges = <<>>
    /\ hist = <<>>
    /\ twCloseCalls = 0

\* OPENAI_API_KEY set, twilioClient non-null; ALERT_SMS_TO and ALERT_SMS_FROM
\* are set, so that the summary is texted whenever there is something to text
Envs == [apiKey : BOOLEAN, twilioClient : BOOLEAN, sms : {TRUE}]

InitBridge ==
    /\ variant = "bridge"
    /\ env \in Envs
    /\ twilioWs = "OPEN"
    /\ bridge = 0
    /\ bridges = <<>>
    /\ hist = <<>>
    /\ twCloseCalls = 0
    /\ PlainIdle
    /\ FirstIdle
    /\ CodecIdle
    /\ P0Idle
    /\ out = NoOut

\* Twilio sends 'start' once per stream: the first disjunct for 'start' is the
\* one of a connection that has no Bridge yet.
NextBridge ==
    \/ BridgeTwilioUnparseable
    \/ \E sid \in {"MZ1"}, callSid \in {"", "CA1"} : bridge = 0 /\ BridgeTwilioStart(sid, callSid)
    \/ \E ev \in TwilioEvents, k \in 0..MaxPayload : BridgeTwilioMessage(ev, k * PayloadUnit)
    \/ BridgeTwilioClose
    \/ BridgeTwilioError
    \/ \E i \in 1..Len(bridges) : BridgeOpenAIOpen(i)
    \/ \E i \in 1..Len(bridges) : BridgeOpenAIPing(i)
    \/ \E i \in 1..Len(bridges), msg \in OpenAIMsgs : BridgeOpenAIMessage(i, msg)
    \/ \E i \in 1..Len(bridges) : BridgeOpenAIError(i)
    \/ \E i \in 1..Len(bridges) : BridgeOpenAIClose(i)
    \/ \E i \in 1..Len(bridges) : BridgeCommitTimer(i)

SpecBridge == InitBridge /\ [][NextBridge]_vars

\* 'start' frames handled on one connection
MaxStarts == 2

\* The connection handler constructs a Bridge on every 'start' frame it is
\* sent.  The events of a connection that is sent up to MaxStarts of them
\* and no caller audio: 'stop' frames and the socket events of every Bridge
\* constructed.
NextRestart ==
    \/ \E sid \in {"MZ1"}, callSid \in {"CA1"} :
          Len(bridges) < MaxStarts /\ BridgeTwilioStart(sid, callSid)
    \/ BridgeTwilioMessage("stop", 0)
    \/ BridgeTwilioClose
    \/ BridgeTwilioError
    \/ \E i \in 1..Len(bridges) : BridgeOpenAIOpen(i)
    \/ \E i \in 1..Len(bridges) : BridgeOpenAIError(i)
    \/ \E i \in 1..Len(bridges) : BridgeOpenAIClose(i)

SpecRestart == InitBridge /\ [][NextRestart]_vars

\* A call from 'start' to hang-up: caller frames of one size, 'stop', and
\* the socket events of the Bridge.
NextHangup ==
    \/ \E sid \in {"MZ1"}, callSid \in {"CA1"} : bridge = 0 /\ BridgeTwilioStart(sid, callSid)
    \/ \E ev \in {"media", "stop"} :
          BridgeTwilioMessage(ev, IF ev = "media" THEN PayloadUnit ELSE 0)
    \/ BridgeTwilioClose
    \/ BridgeTwilioError
    \/ \E i \in 1..Len(bridges) : BridgeOpenAIOpen(i)
    \/ \E i \in 1..Len(bridges) : BridgeOpenAIError(i)
    \/ \E i \in 1..Len(bridges) : BridgeOpenAIClose(i)
    \/ \E i \in 1..Len(bridges) : BridgeCommitTimer(i)

\* What is bound to happen: a timer that is set fires; a handshake in
\* progress ends in 'open' or 'error'; a socket on which close() was called,
\* or which failed, emits 'close' (ws closes it after closeTimeout at the
\* latest).  Nothing makes OpenAI close a socket that is open.
HandshakeEnds(i) ==
    BridgeOpenAIOpen(i) \/ (BridgeOpenAIError(i) /\ bridges[i].openaiWs = "CONNECTING")

CloseCompletes(i) == BridgeOpenAIClose(i) /\ bridges[i].openaiWs = "CLOSING"

FairHangup ==
    /\ WF_vars(BridgeCommitTimer(1))
    /\ WF_vars(HandshakeEnds(1))
    /\ WF_vars(CloseCompletes(1))
    /\ WF_vars(BridgeTwilioClose /\ twilioWs = "CLOSING")

SpecHangup == InitBridge /\ [][NextHangup]_vars /\ FairHangup

(***************************************************************************)
(* The ws library, as part_004 and part_005 use it                         *)
(***************************************************************************)
\* ws.close(): a socket that is CLOSING or CLOSED stays as it is
closeWs(rs) == IF rs \in {"CLOSING", "CLOSED"} THEN rs ELSE "CLOSING"

MaxDeltas == 3      \* audio deltas OpenAI delivers on one call of part_004

StartSids == {"SID1", "SID2"}

\* what a Twilio 'start' frame may carry: a streamSid, a start object with
\* no streamSid (NULL), or no start object at all ("throw")
StartInputs == StartSids \cup {NULL, "throw"}

(***************************************************************************)
(* part_004, lines 160-313: the buffering bridge                           *)
(***************************************************************************)
IsP4 == variant = "part_004"

\* flushPendingAudio written with pop() instead of shift(): newest delta first
flushMessages_lifo(q, sid) ==
    [k \in 1..Len(q) |-> TwMsg("media", sid, q[Len(q) + 1 - k])]

\* the media messages flushPendingAudio sends for the queue q
flushMessages(q, sid) == [k \in 1..Len(q) |-> TwMsg("media", sid, q[k])]

\* flushPendingAudio written as a loop that sends and leaves the queue alone
flushPendingAudio_keep(q, sid, tw) ==
    IF sid = NULL \/ tw # "OPEN" THEN <<(<<>>), q>>
    ELSE <<flushMessages(q, sid), q>>

\* flushPendingAudio: <<messages sent, pendingAudio afterwards>>
flushPendingAudio(q, sid, tw) ==
    IF sid = NULL \/ tw # "OPEN" THEN <<(<<>>), q>>
    ELSE <<flushMessages(q, sid), <<>>>>

\* sendGreeting: the messages sent on openaiWs
sendGreeting == <<OaMsg("response.create", 0), OaMsg("response.output_audio", 0)>>

\* case "start" greeting whenever OpenAI is ready, without the greeted flag
shouldGreet_again(ready, g) == ready

\* `if (openaiReady && !greeted) sendGreeting()` and its `if (greeted) return`
shouldGreet(ready, g) == ready /\ ~g

Payloads(msgs) == [k \in 1..Len(msgs) |-> msgs[k].payload]

P4Unchanged == UNCHANGED <<variant, env, firstVars, p0Vars, codec, bridgeVars, outBuffer, paceTimer>>

\* openaiWs.on("open")
P4OpenAIOpen ==
    /\ IsP4 /\ openaiWs = "CONNECTING"
    /\ openaiWs' = "OPEN"
    /\ openaiReady' = TRUE
    /\ out' = [On("open") EXCEPT !.oa = <<OaMsg("session.update", 0)>>]
    /\ UNCHANGED <<twilioWs, streamSid, greeted, pendingAudio, arrived, twLog,
                   starts, inflight>>
    /\ P4Unchanged

P4OpenAITypes ==
    {"unparseable", "error", "response.output_audio.delta", "response.content.done",
     "input_audio_buffer.speech_started", "input_audio_buffer.speech_stopped", "other"}

\* openaiWs.on("message"); hasDelta: msg.delta is a non-empty string
P4OpenAIMessage(type, hasDelta) ==
    /\ IsP4 /\ Live(openaiWs)
    /\ hasDelta => type = "response.output_audio.delta" /\ arrived < MaxDeltas
    /\ IF type = "response.output_audio.delta" /\ hasDelta
       THEN LET d == arrived + 1
            IN  /\ arrived' = d
                /\ IF streamSid # NULL /\ twilioWs = "OPEN"
                   THEN /\ out' = [On(type) EXCEPT !.tw = <<TwMsg("media", streamSid, d)>>]
                        /\ twLog' = Append(twLog, d)
                        /\ UNCHANGED pendingAudio
                   ELSE /\ pendingAudio' = Append(pendingAudio, d)
                        /\ out' = On(type)
                        /\ UNCHANGED twLog
       ELSE /\ out' = On(type)
            /\ UNCHANGED <<arrived, pendingAudio, twLog>>
    /\ inflight' = IF type = "response.content.done" THEN 0 ELSE inflight
    /\ UNCHANGED <<twilioWs, openaiWs, streamSid, openaiReady, greeted, starts>>
    /\ P4Unchanged

\* openaiWs.on("close")
P4OpenAIClose ==
    /\ IsP4 /\ Live(openaiWs)
    /\ openaiWs' = "CLOSED"
    /\ twilioWs' = closeWs(twilioWs)
    /\ out' = [On("openai:close") EXCEPT !.calls = <<"twilioWs.close">>]
    /\ UNCHANGED <<streamSid, openaiReady, greeted, pendingAudio, arrived, twLog,
                   starts, inflight>>
    /\ P4Unchanged

\* openaiWs.on("error"): logged; ws has left CONNECTING/OPEN before 'error'
P4OpenAIError ==
    /\ IsP4 /\ openaiWs \in {"CONNECTING", "OPEN", "CLOSING"}
    /\ openaiWs' = "CLOSING"
    /\ out' = On("openai:error")
    /\ UNCHANGED <<twilioWs, streamSid, openaiReady, greeted, pendingAudio, arrived,
                   twLog, starts, inflight>>
    /\ P4Unchanged

\* twilioWs.on("message"), case "start"
P4TwilioStart(sid) ==
    /\ IsP4 /\ Live(twilioWs)
    /\ IF sid = "throw"
       THEN /\ out' = On("start")
            /\ UNCHANGED <<streamSid, pendingAudio, twLog, greeted, starts, inflight>>
       ELSE LET f     == flushPendingAudio(pendingAudio, sid, twilioWs)
                greet == shouldGreet(openaiReady, greeted)
            IN  /\ streamSid' = sid
                /\ starts' = Cap2(starts + 1)
                /\ pendingAudio' = f[2]
                /\ twLog' = twLog \o Payloads(f[1])
                /\ greeted' = (greeted \/ greet)
                /\ inflight' = IF greet THEN Cap2(inflight + 1) ELSE inflight
                /\ out' = [On("start") EXCEPT !.tw = f[1],
                                        !.oa = IF greet THEN sendGreeting ELSE <<>>]
    /\ UNCHANGED <<twilioWs, openaiWs, openaiReady, arrived>>
    /\ P4Unchanged

\* twilioWs.on("message"), case "media"
P4TwilioMedia(hasPayload) ==
    /\ IsP4 /\ Live(twilioWs)
    /\ out' = IF openaiWs = "OPEN" /\ hasPayload
              THEN [On("media") EXCEPT !.oa = <<OaMsg("input_audio_buffer.append", 0)>>]
              ELSE On("media")
    /\ UNCHANGED <<twilioWs, plainVars>>
    /\ P4Unchanged

\* twilioWs.on("message"), case "stop"
P4TwilioStop ==
    /\ IsP4 /\ Live(twilioWs)
    /\ openaiWs' = closeWs(openaiWs)
    /\ twilioWs' = closeWs(twilioWs)
    /\ out' = [On("stop") EXCEPT !.calls = <<"openaiWs.close", "twilioWs.close">>]
    /\ UNCHANGED <<streamSid, openaiReady, greeted, pendingAudio, arrived, twLog,
                   starts, inflight>>
    /\ P4Unchanged

\* twilioWs.on("message"), default case and frames JSON.parse rejects
P4TwilioOther ==
    /\ IsP4 /\ Live(twilioWs)
    /\ out' = On("twilio:other")
    /\ UNCHANGED <<twilioWs, plainVars>>
    /\ P4Unchanged

\* twilioWs.on("close")
P4TwilioClose ==
    /\ IsP4 /\ Live(twilioWs)
    /\ twilioWs' = "CLOSED"
    /\ openaiWs' = closeWs(openaiWs)
    /\ out' = [On("twilio:close") EXCEPT !.calls = <<"openaiWs.close">>]
    /\ UNCHANGED <<streamSid, openaiReady, greeted, pendingAudio, arrived, twLog,
                   starts, inflight>>
    /\ P4Unchanged

\* twilioWs.on("error")
P4TwilioError ==
    /\ IsP4 /\ Live(twilioWs)
    /\ twilioWs' = "CLOSING"
    /\ openaiWs' = closeWs(openaiWs)
    /\ out' = [On("twilio:error") EXCEPT !.calls = <<"openaiWs.close">>]
    /\ UNCHANGED <<streamSid, openaiReady, greeted, pendingAudio, arrived, twLog,
                   starts, inflight>>
    /\ P4Unchanged

\* app.ws("/media-stream", ...): the state when the handler returns
InitPlain ==
    /\ env = [apiKey |-> TRUE, twilioClient |-> FALSE, sms |-> FALSE]
    /\ twilioWs = "OPEN"
    /\ BridgeIdle
    /\ FirstIdle
    /\ CodecIdle
    /\ P0Idle
    /\ streamSid = NULL
    /\ openaiReady = FALSE
    /\ greeted = FALSE
    /\ openaiWs = "CONNECTING"
    /\ pendingAudio = <<>>
    /\ outBuffer = <<>>
    /\ paceTimer = FALSE
    /\ arrived = 0
    /\ twLog = <<>>
    /\ starts = 0
    /\ inflight = 0
    /\ out = NoOut

InitP4 == variant = "part_004" /\ InitPlain

NextP4 ==
    \/ P4OpenAIOpen
    \/ \E t \in P4OpenAITypes, d \in BOOLEAN : P4OpenAIMessage(t, d)
    \/ P4OpenAIClose
    \/ P4OpenAIError
    \/ \E sid \in StartInputs : P4TwilioStart(sid)
    \/ \E hasPayload \in BOOLEAN : P4TwilioMedia(hasPayload)
    \/ P4TwilioStop
    \/ P4TwilioOther
    \/ P4TwilioClose
    \/ P4TwilioError

SpecP4 == InitP4 /\ [][NextP4]_vars

(***************************************************************************)
(* part_005, lines 30-73: audio helpers                                    *)
(***************************************************************************)
Pow2(n) == 2 ^ n

\* x >> n for x >= 0
Shr(x, n) == x \div Pow2(n)

\* the loop of linearToMulaw that finds the exponent
RECURSIVE expLoop(_, _, _)
expLoop(sample, expMask, exponent) ==
    IF (sample \div expMask) % 2 = 0 /\ exponent > 0
    THEN expLoop(sample, expMask \div 2, exponent - 1)
    ELSE exponent

\* linearToMulaw, for a sample of an Int16Array
linearToMulaw(sample) ==
    LET BIAS     == 132
        CLIP     == 32635
        sign     == IF sample < 0 THEN 128 ELSE 0
        mag      == IF sample < 0 THEN -sample ELSE sample
        clipped  == IF mag > CLIP THEN CLIP ELSE mag
        biased   == clipped + BIAS
        exponent == expLoop(biased, 16384, 7)
        mantissa == Shr(biased, IF exponent = 0 THEN 4 ELSE exponent + 3) % 16
    IN  255 - (sign + exponent * 16 + mantissa)

\* x | 0 for a quotient num/den with den > 0: truncation toward zero
TruncDiv(num, den) == IF num >= 0 THEN num \div den ELSE -((-num) \div den)

\* resamplePcm16: linear interpolation, index i of the code is i + 1 here
resamplePcm16(int16Arr, srcRate, dstRate) ==
    IF srcRate = dstRate THEN int16Arr
    ELSE LET n      == Len(int16Arr)
             outLen == (n * dstRate) \div srcRate
         IN  [k \in 1..outLen |->
                LET i  == k - 1
                    i0 == (i * srcRate) \div dstRate
                    r  == (i * srcRate) % dstRate
                    i1 == Min(i0 + 1, n - 1)
                IN  TruncDiv(int16Arr[i0 + 1] * (dstRate - r) + int16Arr[i1 + 1] * r,
                             dstRate)]

\* b64ToPcm16LE, on the bytes the base64 text stands for: an odd last byte
\* is dropped, each pair is one little-endian signed 16-bit sample
b64ToPcm16LE(bytes) ==
    [k \in 1..(Len(bytes) \div 2) |->
        LET u == bytes[2 * k - 1] + 256 * bytes[2 * k]
        IN  IF u >= 32768 THEN u - 65536 ELSE u]

pcm16ToMulawBytes(pcm16) == [k \in 1..Len(pcm16) |-> linearToMulaw(pcm16[k])]

(***************************************************************************)
(* part_005, lines 91-279: the paced bridge                                *)
(***************************************************************************)
IsP5 == variant = "part_005"

OUT_FRAME_SAMPLES == 160

MaxChunks == 2      \* audio deltas OpenAI delivers on one call of part_005

\* the file with the greeting switched on
GREET_FIRST_on == TRUE

GREET_FIRST == FALSE

\* the delta of the d-th audio message, n bytes long
DeltaBytes(d, n) == [j \in 1..n |-> (d * 71 + j * 13) % 256]

\* lengths in bytes of the deltas OpenAI may deliver; 0 is an empty delta
DeltaLens == {0, 201, 800}

SubSeqFrom(q, k) == SubSeq(q, k, Len(q))

\* the while loop taking the newest chunk (pop) instead of the oldest (shift)
RECURSIVE fillFrame_newest(_, _)
fillFrame_newest(frame, buf) ==
    IF Len(frame) < OUT_FRAME_SAMPLES /\ Len(buf) > 0
    THEN LET chunk == buf[Len(buf)]
             older == SubSeq(buf, 1, Len(buf) - 1)
             take  == Min(OUT_FRAME_SAMPLES - Len(frame), Len(chunk))
         IN  fillFrame_newest(frame \o SubSeq(chunk, 1, take),
                              IF take < Len(chunk)
                              THEN older \o <<SubSeqFrom(chunk, take + 1)>>
                              ELSE older)
    ELSE <<frame, buf>>

\* the while loop always shifting the chunk it took from, so that the part
\* of a chunk that did not fit the frame is lost
RECURSIVE fillFrame_dropRest(_, _)
fillFrame_dropRest(frame, buf) ==
    IF Len(frame) < OUT_FRAME_SAMPLES /\ Len(buf) > 0
    THEN LET chunk == Head(buf)
             take  == Min(OUT_FRAME_SAMPLES - Len(frame), Len(chunk))
         IN  fillFrame_dropRest(frame \o SubSeq(chunk, 1, take), Tail(buf))
    ELSE <<frame, buf>>

\* the while loop of the pacer callback: <<frame bytes filled, outBuffer>>
RECURSIVE fillFrame(_, _)
fillFrame(frame, buf) ==
    IF Len(frame) < OUT_FRAME_SAMPLES /\ Len(buf) > 0
    THEN LET chunk == Head(buf)
             take  == Min(OUT_FRAME_SAMPLES - Len(frame), Len(chunk))
         IN  fillFrame(frame \o SubSeq(chunk, 1, take),
                       IF take < Len(chunk)
                       THEN <<SubSeqFrom(chunk, take + 1)>> \o Tail(buf)
                       ELSE Tail(buf))
    ELSE <<frame, buf>>

\* the frame sent as filled, without the padding loop
padFrame_none(frame) == frame

\* the frame left as new Uint8Array() made it: zero where nothing was copied
padFrame_zero(frame) ==
    frame \o [k \in 1..(OUT_FRAME_SAMPLES - Len(frame)) |-> 0]

\* the frame padded with mu-law silence
padFrame(frame) ==
    frame \o [k \in 1..(OUT_FRAME_SAMPLES - Len(frame)) |-> 255]

\* the pacer callback without its streamSid test
pacerTick_noSid(sid, tw, buf) ==
    IF tw # "OPEN" THEN <<(<<>>), buf>>
    ELSE LET f == fillFrame(<<>>, buf)
         IN  <<(<<TwMsg("media", sid, padFrame(f[1]))>>), f[2]>>

\* the setInterval callback of startPacer: <<messages sent, outBuffer>>
pacerTick(sid, tw, buf) ==
    IF sid = NULL \/ tw # "OPEN" THEN <<(<<>>), buf>>
    ELSE LET f == fillFrame(<<>>, buf)
         IN  <<(<<TwMsg("media", sid, padFrame(f[1]))>>), f[2]>>

\* stopPacer leaving the interval running
stopPacer_keep(timer) == timer

\* startPacer without `if (paceTimer) return`
startPacer_again(timer) == <<"setInterval">>

\* startPacer: the calls it makes; paceTimer is set when it returns
startPacer(timer) == IF timer THEN <<>> ELSE <<"setInterval">>

\* stopPacer: clearInterval(paceTimer); paceTimer = null
stopPacer(timer) == FALSE

P5Unchanged == UNCHANGED <<variant, env, firstVars, p0Vars, codec, bridgeVars, pendingAudio, twLog>>

\* the setInterval callback, every 20 ms while the timer is set
P5PacerTick ==
    /\ IsP5 /\ paceTimer
    /\ LET t == pacerTick(streamSid, twilioWs, outBuffer)
       IN  /\ out' = [On("timer:pace") EXCEPT !.tw = t[1]]
           /\ outBuffer' = t[2]
    /\ UNCHANGED <<twilioWs, openaiWs, streamSid, openaiReady, greeted, paceTimer,
                   arrived, starts, inflight>>
    /\ P5Unchanged

\* openaiWs.on("open")
P5OpenAIOpen ==
    /\ IsP5 /\ openaiWs = "CONNECTING"
    /\ openaiWs' = "OPEN"
    /\ openaiReady' = TRUE
    /\ out' = [On("open") EXCEPT !.oa = <<OaMsg("session.update", 0)>>]
    /\ UNCHANGED <<twilioWs, streamSid, greeted, outBuffer, paceTimer, arrived,
                   starts, inflight>>
    /\ P5Unchanged

P5OpenAITypes ==
    {"unparseable", "error", "input_audio_buffer.speech_stopped",
     "response.output_audio.delta", "response.audio.delta",
     "response.content.done", "other"}

P5IsDelta(type, n) ==
    type \in {"response.output_audio.delta", "response.audio.delta"} /\ n > 0

\* openaiWs.on("message"); n: bytes in msg.delta
P5OpenAIMessage(type, n) ==
    /\ IsP5 /\ Live(openaiWs)
    /\ n > 0 => P5IsDelta(type, n) /\ arrived < MaxChunks
    /\ IF type = "input_audio_buffer.speech_stopped"
       THEN /\ out' = [On(type) EXCEPT !.oa = <<OaMsg("response.create", 0),
                                             OaMsg("response.output_audio", 0)>>]
            /\ inflight' = Cap2(inflight + 1)
            /\ UNCHANGED <<outBuffer, arrived>>
       ELSE IF P5IsDelta(type, n)
       THEN LET pcm16 == b64ToPcm16LE(DeltaBytes(arrived + 1, n))
                pcm8k == resamplePcm16(pcm16, 16000, 8000)
                mulaw == pcm16ToMulawBytes(pcm8k)
            IN  /\ outBuffer' = Append(outBuffer, mulaw)
                /\ arrived' = arrived + 1
                /\ out' = On(type)
                /\ UNCHANGED inflight
       ELSE /\ out' = On(type)
            /\ inflight' = IF type = "response.content.done" THEN 0 ELSE inflight
            /\ UNCHANGED <<outBuffer, arrived>>
    /\ UNCHANGED <<twilioWs, openaiWs, streamSid, openaiReady, greeted, paceTimer,
                   starts>>
    /\ P5Unchanged

\* openaiWs.on("close")
P5OpenAIClose ==
    /\ IsP5 /\ Live(openaiWs)
    /\ openaiWs' = "CLOSED"
    /\ paceTimer' = stopPacer(paceTimer)
    /\ twilioWs' = closeWs(twilioWs)
    /\ out' = [On("openai:close") EXCEPT !.calls = <<"stopPacer", "twilioWs.close">>]
    /\ UNCHANGED <<streamSid, openaiReady, greeted, outBuffer, arrived, starts,
                   inflight>>
    /\ P5Unchanged

\* openaiWs.on("error"): logged; ws has left CONNECTING/OPEN before 'error'
P5OpenAIError ==
    /\ IsP5 /\ openaiWs \in {"CONNECTING", "OPEN", "CLOSING"}
    /\ openaiWs' = "CLOSING"
    /\ out' = On("openai:error")
    /\ UNCHANGED <<twilioWs, streamSid, openaiReady, greeted, outBuffer, paceTimer,
                   arrived, starts, inflight>>
    /\ P5Unchanged

\* maybeGreet: TRUE when it sends the greeting
maybeGreet == GREET_FIRST /\ ~greeted

\* twilioWs.on("message"), case "start"
P5TwilioStart(sid) ==
    /\ IsP5 /\ Live(twilioWs)
    /\ IF sid = "throw"
       THEN /\ out' = On("start")
            /\ UNCHANGED <<streamSid, paceTimer, greeted, starts, inflight>>
       ELSE LET greet == openaiReady /\ GREET_FIRST /\ maybeGreet
            IN  /\ streamSid' = sid
                /\ starts' = Cap2(starts + 1)
                /\ paceTimer' = TRUE
                /\ greeted' = (greeted \/ greet)
                /\ inflight' = IF greet THEN Cap2(inflight + 1) ELSE inflight
                /\ out' = [On("start") EXCEPT
                             !.calls = startPacer(paceTimer),
                             !.oa = IF greet THEN sendGreeting ELSE <<>>]
    /\ UNCHANGED <<twilioWs, openaiWs, openaiReady, outBuffer, arrived>>
    /\ P5Unchanged

\* twilioWs.on("message"), case "media"
P5TwilioMedia(hasPayload) ==
    /\ IsP5 /\ Live(twilioWs)
    /\ out' = IF openaiWs = "OPEN" /\ hasPayload
              THEN [On("media") EXCEPT !.oa = <<OaMsg("input_audio_buffer.append", 0)>>]
              ELSE On("media")
    /\ UNCHANGED <<twilioWs, plainVars>>
    /\ P5Unchanged

\* twilioWs.on("message"), case "stop"
P5TwilioStop ==
    /\ IsP5 /\ Live(twilioWs)
    /\ paceTimer' = stopPacer(paceTimer)
    /\ openaiWs' = closeWs(openaiWs)
    /\ twilioWs' = closeWs(twilioWs)
    /\ out' = [On("stop") EXCEPT !.calls = <<"stopPacer", "openaiWs.close", "twilioWs.close">>]
    /\ UNCHANGED <<streamSid, openaiReady, greeted, outBuffer, arrived, starts,
                   inflight>>
    /\ P5Unchanged

\* twilioWs.on("message"), default case and frames JSON.parse rejects
P5TwilioOther ==
    /\ IsP5 /\ Live(twilioWs)
    /\ out' = On("twilio:other")
    /\ UNCHANGED <<twilioWs, plainVars>>
    /\ P5Unchanged

\* twilioWs.on("close")
P5TwilioClose ==
    /\ IsP5 /\ Live(twilioWs)
    /\ twilioWs' = "CLOSED"
    /\ paceTimer' = stopPacer(paceTimer)
    /\ openaiWs' = closeWs(openaiWs)
    /\ out' = [On("twilio:close") EXCEPT !.calls = <<"stopPacer", "openaiWs.close">>]
    /\ UNCHANGED <<streamSid, openaiReady, greeted, outBuffer, arrived, starts,
                   inflight>>
    /\ P5Unchanged

\* twilioWs.on("error")
P5TwilioError ==
    /\ IsP5 /\ Live(twilioWs)
    /\ twilioWs' = "CLOSING"
    /\ paceTimer' = stopPacer(paceTimer)
    /\ openaiWs' = closeWs(openaiWs)
    /\ out' = [On("twilio:error") EXCEPT !.calls = <<"stopPacer", "openaiWs.close">>]
    /\ UNCHANGED <<streamSid, openaiReady, greeted, outBuffer, arrived, starts,
                   inflight>>
    /\ P5Unchanged

InitP5 == variant = "part_005" /\ InitPlain

NextP5 ==
    \/ P5PacerTick
    \/ P5OpenAIOpen
    \/ \E t \in P5OpenAITypes, n \in DeltaLens : P5OpenAIMessage(t, n)
    \/ P5OpenAIClose
    \/ P5OpenAIError
    \/ \E sid \in StartInputs : P5TwilioStart(sid)
    \/ \E hasPayload \in BOOLEAN : P5TwilioMedia(hasPayload)
    \/ P5TwilioStop
    \/ P5TwilioOther
    \/ P5TwilioClose
    \/ P5TwilioError

SpecP5 == InitP5 /\ [][NextP5]_vars

\* frames' worth of audio in the burst OpenAI delivers
MaxFrames == 2

\* PCM16 bytes at 16 kHz that make n frames of OUT_FRAME_SAMPLES mu-law bytes
BurstLen(n) == n * OUT_FRAME_SAMPLES * 4

\* part_005 on a call where OpenAI delivers one audio delta of 1..MaxFrames
\* whole frames and no other audio
NextBurst ==
    \/ P5PacerTick
    \/ P5OpenAIOpen
    \/ \E n \in 1..MaxFrames :
          arrived = 0 /\ P5OpenAIMessage("response.audio.delta", BurstLen(n))
    \/ \E sid \in StartSids : P5TwilioStart(sid)
    \/ \E hasPayload \in BOOLEAN : P5TwilioMedia(hasPayload)
    \/ P5TwilioStop
    \/ P5TwilioClose

SpecBurst == InitP5 /\ [][NextBurst]_vars

(***************************************************************************)
(* The two bridges that hold outbound audio back until 'start'             *)
(***************************************************************************)
InitP45 == InitP4 \/ InitP5

NextP45 == NextP4 \/ NextP5

SpecP45 == InitP45 /\ [][NextP45]_vars

(***************************************************************************)
(* server.js, lines 31-135: the first bridge, app.ws("/media", handler)    *)
(*                                                                         *)
(* `let openaiWs = null` is a variable of the module: every run of the     *)
(* handler assigns it, and every callback reads it when it runs.  The      *)
(* socket made by the k-th run of the handler is socket k; twilioWs is the *)
(* handler's parameter, so each callback keeps its own.                    *)
(***************************************************************************)
IsFirst == variant = "first"

\* /media connections accepted over the life of the process
MaxCalls == 2

\* openaiWs?.send(m), run by a callback of connection k: ws throws from send()
\* on a socket that is still CONNECTING, and nothing catches it
sendShared(o, m) ==
    IF moduleOpenaiWs = 0 THEN o
    ELSE LET o1 == [o EXCEPT !.oa = Append(@, [type |-> m, to |-> moduleOpenaiWs])]
         IN  IF conns[moduleOpenaiWs].openaiWs = "CONNECTING"
             THEN [o1 EXCEPT !.calls = Append(@, "throw")]
             ELSE o1

\* a callback of connection k ends with effects o
FirstDone(k, o) ==
    /\ out' = [o EXCEPT !.by = k]
    /\ running' = ~Has(o.calls, "throw")
    /\ UNCHANGED <<variant, env, twilioWs, bridgeVars, plainVars, p0Vars, codec>>

\* app.ws("/media", (twilioWs) => { openaiWs = new WebSocket(...); ... })
FirstConnect ==
    /\ IsFirst /\ running /\ Len(conns) < MaxCalls
    /\ conns' = Append(conns, [twilioWs |-> "OPEN", openaiWs |-> "CONNECTING"])
    /\ moduleOpenaiWs' = Len(conns) + 1
    /\ FirstDone(Len(conns) + 1, [On("connection") EXCEPT !.calls = <<"new WebSocket">>])

\* openaiWs.on("open"), registered on socket k
FirstOpenAIOpen(k) ==
    /\ IsFirst /\ running /\ k \in 1..Len(conns)
    /\ conns[k].openaiWs = "CONNECTING"
    /\ conns' = [conns EXCEPT ![k].openaiWs = "OPEN"]
    /\ LET now == [conns EXCEPT ![k].openaiWs = "OPEN"]
           o   == [On("open") EXCEPT
                     !.oa = <<[type |-> "response.create", to |-> moduleOpenaiWs]>>]
       IN  FirstDone(k, IF now[moduleOpenaiWs].openaiWs = "CONNECTING"
                        THEN [o EXCEPT !.calls = <<"throw">>] ELSE o)
    /\ UNCHANGED moduleOpenaiWs

\* twilioWs.on("message"), registered on the Twilio socket of connection k
FirstTwilioMessage(k, ev) ==
    /\ IsFirst /\ running /\ k \in 1..Len(conns)
    /\ Live(conns[k].twilioWs)
    /\ FirstDone(k, CASE ev = "media" -> sendShared(On(ev), "input_audio_buffer.append")
                       [] ev = "stop"  -> sendShared(On(ev), "input_audio_buffer.commit")
                       [] OTHER        -> On(ev))
    /\ UNCHANGED <<conns, moduleOpenaiWs>>

\* openaiWs.on("message"), registered on socket k
FirstOpenAIMessage(k, type) ==
    /\ IsFirst /\ running /\ k \in 1..Len(conns)
    /\ Live(conns[k].openaiWs)
    /\ FirstDone(k, IF type = "response.output_audio.delta"
                    THEN [On(type) EXCEPT !.tw = <<[event |-> "media", to |-> k]>>]
                    ELSE On(type))
    /\ UNCHANGED <<conns, moduleOpenaiWs>>

\* openaiWs.on("close"), registered on socket k: twilioWs.close()
FirstOpenAIClose(k) ==
    /\ IsFirst /\ running /\ k \in 1..Len(conns)
    /\ Live(conns[k].openaiWs)
    /\ conns' = [conns EXCEPT ![k].openaiWs = "CLOSED",
                              ![k].twilioWs = closeWs(@)]
    /\ FirstDone(k, [On("openai:close") EXCEPT !.calls = <<"twilioWs.close">>])
    /\ UNCHANGED moduleOpenaiWs

\* openaiWs.on("error"), registered on socket k: the apology is sent as media
FirstOpenAIError(k) ==
    /\ IsFirst /\ running /\ k \in 1..Len(conns)
    /\ conns[k].openaiWs \in {"CONNECTING", "OPEN", "CLOSING"}
    /\ conns' = [conns EXCEPT ![k].openaiWs = "CLOSING"]
    /\ FirstDone(k, [On("openai:error") EXCEPT !.tw = <<[event |-> "media", to |-> k]>>])
    /\ UNCHANGED moduleOpenaiWs

\* the Twilio socket of connection k closes; the handler registers no callback
FirstTwilioClose(k) ==
    /\ IsFirst /\ running /\ k \in 1..Len(conns)
    /\ Live(conns[k].twilioWs)
    /\ conns' = [conns EXCEPT ![k].twilioWs = "CLOSED"]
    /\ FirstDone(k, On("twilio:close"))
    /\ UNCHANGED moduleOpenaiWs

InitFirst ==
    /\ variant = "first"
    /\ env = [apiKey |-> TRUE, twilioClient |-> FALSE, sms |-> FALSE]
    /\ twilioWs = "null"
    /\ BridgeIdle
    /\ PlainIdle
    /\ FirstIdle
    /\ CodecIdle
    /\ P0Idle
    /\ out = NoOut

NextFirst ==
    \/ FirstConnect
    \/ \E k \in 1..Len(conns) : FirstOpenAIOpen(k)
    \/ \E k \in 1..Len(conns), ev \in {"media", "stop", "mark"} : FirstTwilioMessage(k, ev)
    \/ \E k \in 1..Len(conns), type \in {"response.output_audio.delta", "other"} :
          FirstOpenAIMessage(k, type)
    \/ \E k \in 1..Len(conns) : FirstOpenAIClose(k)
    \/ \E k \in 1..Len(conns) : FirstOpenAIError(k)
    \/ \E k \in 1..Len(conns) : FirstTwilioClose(k)

SpecFirst == InitFirst /\ [][NextFirst]_vars

(***************************************************************************)
(* part_000, lines 216-322: the express-ws bridge that buffers caller      *)
(* audio until the OpenAI socket is open                                   *)
(***************************************************************************)
IsP0b == variant = "part_000b"

\* caller media frames with a payload received on one call
MaxCaller == 3

\* the open handler without `buffer.forEach((msg) => openaiWs.send(msg))`
flushBuffer_none(buf) == <<>>

\* buffer.forEach((msg) => openaiWs.send(msg)): the frames sent, in order
flushBuffer(buf) == buf

Appends(ids) == [k \in 1..Len(ids) |-> OaMsg("input_audio_buffer.append", ids[k])]

P0bUnchanged ==
    UNCHANGED <<variant, env, firstVars, bridgeVars, greeted, pendingAudio, outBuffer,
                paceTimer, arrived, twLog, inflight, timers, updates, listening, codec>>

\* openaiWs.on("open")
P0bOpenAIOpen ==
    /\ IsP0b /\ openaiWs = "CONNECTING"
    /\ openaiWs' = "OPEN"
    /\ openaiReady' = TRUE
    /\ LET sent == flushBuffer(buffer)
       IN  /\ out' = [On("open") EXCEPT
                        !.oa = <<OaMsg("session.update", 0), OaMsg("response.create", 0)>>
                               \o Appends(sent)]
           /\ oaLog' = oaLog \o sent
    /\ buffer' = <<>>
    /\ UNCHANGED <<twilioWs, streamSid, starts, received>>
    /\ P0bUnchanged

\* openaiWs.on("message"): twilioWs.send() is called whatever its readyState
P0bOpenAIMessage(type) ==
    /\ IsP0b /\ Live(openaiWs)
    /\ out' = IF type = "response.audio.delta" /\ streamSid # NULL
              THEN [On(type) EXCEPT !.tw = <<TwMsg("media", streamSid, 0)>>]
              ELSE On(type)
    /\ UNCHANGED <<twilioWs, openaiWs, openaiReady, streamSid, starts, buffer,
                   received, oaLog>>
    /\ P0bUnchanged

\* twilioWs.on("message"), data.event === "start"
P0bTwilioStart(sid) ==
    /\ IsP0b /\ Live(twilioWs)
    /\ streamSid' = sid
    /\ starts' = Cap2(starts + 1)
    /\ out' = On("start")
    /\ UNCHANGED <<twilioWs, openaiWs, openaiReady, buffer, received, oaLog>>
    /\ P0bUnchanged

\* twilioWs.on("message"), data.event === "media"; openaiWs.send() on a socket
\* that is no longer open sends nothing
P0bTwilioMedia(hasPayload) ==
    /\ IsP0b /\ Live(twilioWs)
    /\ hasPayload => received < MaxCaller
    /\ IF ~hasPayload
       THEN /\ out' = On("media")
            /\ UNCHANGED <<buffer, received, oaLog>>
       ELSE LET id == received + 1
            IN  /\ received' = id
                /\ IF openaiReady
                   THEN /\ out' = [On("media") EXCEPT !.oa = Appends(<<id>>)]
                        /\ oaLog' = IF openaiWs = "OPEN" THEN Append(oaLog, id) ELSE oaLog
                        /\ UNCHANGED buffer
                   ELSE /\ buffer' = Append(buffer, id)
                        /\ out' = On("media")
                        /\ UNCHANGED oaLog
    /\ UNCHANGED <<twilioWs, openaiWs, openaiReady, streamSid, starts>>
    /\ P0bUnchanged

\* twilioWs.on("message"), data.event === "stop"
P0bTwilioStop ==
    /\ IsP0b /\ Live(twilioWs)
    /\ openaiWs' = IF openaiWs = "OPEN" THEN "CLOSING" ELSE openaiWs
    /\ twilioWs' = IF twilioWs = "OPEN" THEN "CLOSING" ELSE twilioWs
    /\ out' = [On("stop") EXCEPT
                 !.calls = (IF openaiWs = "OPEN" THEN <<"openaiWs.close">> ELSE <<>>)
                           \o (IF twilioWs = "OPEN" THEN <<"twilioWs.close">> ELSE <<>>)]
    /\ UNCHANGED <<openaiReady, streamSid, starts, buffer, received, oaLog>>
    /\ P0bUnchanged

\* twilioWs.on("message"), any other event and frames JSON.parse rejects
P0bTwilioOther ==
    /\ IsP0b /\ Live(twilioWs)
    /\ out' = On("twilio:other")
    /\ UNCHANGED <<twilioWs, openaiWs, openaiReady, streamSid, starts, buffer,
                   received, oaLog>>
    /\ P0bUnchanged

\* openaiWs.on("error"): logged
P0bOpenAIError ==
    /\ IsP0b /\ openaiWs \in {"CONNECTING", "OPEN", "CLOSING"}
    /\ openaiWs' = "CLOSING"
    /\ out' = On("openai:error")
    /\ UNCHANGED <<twilioWs, openaiReady, streamSid, starts, buffer, received, oaLog>>
    /\ P0bUnchanged

\* the OpenAI socket closes; the handler registers no 'close' callback
P0bOpenAIClose ==
    /\ IsP0b /\ Live(openaiWs)
    /\ openaiWs' = "CLOSED"
    /\ out' = On("openai:close")
    /\ UNCHANGED <<twilioWs, openaiReady, streamSid, starts, buffer, received, oaLog>>
    /\ P0bUnchanged

\* twilioWs.on("error"): logged
P0bTwilioError ==
    /\ IsP0b /\ Live(twilioWs)
    /\ twilioWs' = "CLOSING"
    /\ out' = On("twilio:error")
    /\ UNCHANGED <<openaiWs, openaiReady, streamSid, starts, buffer, received, oaLog>>
    /\ P0bUnchanged

\* the Twilio socket closes; the handler registers no 'close' callback
P0bTwilioClose ==
    /\ IsP0b /\ Live(twilioWs)
    /\ twilioWs' = "CLOSED"
    /\ out' = On("twilio:close")
    /\ UNCHANGED <<openaiWs, openaiReady, streamSid, starts, buffer, received, oaLog>>
    /\ P0bUnchanged

InitP0b == variant = "part_000b" /\ InitPlain

NextP0b ==
    \/ P0bOpenAIOpen
    \/ \E type \in {"unparseable", "response.audio.delta", "other"} : P0bOpenAIMessage(type)
    \/ \E sid \in StartSids : P0bTwilioStart(sid)
    \/ \E hasPayload \in BOOLEAN : P0bTwilioMedia(hasPayload)
    \/ P0bTwilioStop
    \/ P0bTwilioOther
    \/ P0bOpenAIError
    \/ P0bOpenAIClose
    \/ P0bTwilioError
    \/ P0bTwilioClose

SpecP0b == InitP0b /\ [][NextP0b]_vars

(***************************************************************************)
(* part_000, lines 1-206: the Fastify bridge, which configures the session *)
(* from a timer set by the 'open' callback                                 *)
(***************************************************************************)
IsP0 == variant = "part_000"

P0Unchanged ==
    UNCHANGED <<variant, env, firstVars, bridgeVars, greeted, pendingAudio, outBuffer,
                paceTimer, arrived, twLog, inflight, buffer, received, oaLog, listening, codec>>

\* openai.on("open"): setTimeout(() => { sendSessionUpdate(); ... }, 250)
P0OpenAIOpen ==
    /\ IsP0 /\ openaiWs = "CONNECTING"
    /\ openaiWs' = "OPEN"
    /\ openaiReady' = TRUE
    /\ timers' = timers \cup {"sessionUpdate"}
    /\ out' = On("open")
    /\ UNCHANGED <<twilioWs, streamSid, starts, updates>>
    /\ P0Unchanged

\* the 250 ms timer: sendSessionUpdate(); setTimeout(sendInitialGreeting, 200).
\* The timer is never cleared; send() on a socket that has left OPEN sends nothing.
P0SessionTimer ==
    /\ IsP0 /\ "sessionUpdate" \in timers
    /\ timers' = (timers \ {"sessionUpdate"}) \cup {"greeting"}
    /\ updates' = IF openaiWs = "OPEN" THEN Cap2(updates + 1) ELSE updates
    /\ out' = [On("timer:sessionUpdate") EXCEPT !.oa = <<OaMsg("session.update", 0)>>]
    /\ UNCHANGED <<twilioWs, openaiWs, openaiReady, streamSid, starts>>
    /\ P0Unchanged

\* the 200 ms timer: sendInitialGreeting()
P0GreetingTimer ==
    /\ IsP0 /\ "greeting" \in timers
    /\ timers' = timers \ {"greeting"}
    /\ out' = [On("timer:greeting") EXCEPT !.oa = <<OaMsg("response.create", 0)>>]
    /\ UNCHANGED <<twilioWs, openaiWs, openaiReady, streamSid, starts, updates>>
    /\ P0Unchanged

\* openai.on("message")
P0OpenAIMessage(type, hasDelta) ==
    /\ IsP0 /\ Live(openaiWs)
    /\ out' = IF type = "response.output_audio.delta" /\ hasDelta /\ streamSid # NULL
              THEN [On(type) EXCEPT !.tw = <<TwMsg("media", streamSid, 0)>>]
              ELSE On(type)
    /\ UNCHANGED <<twilioWs, openaiWs, openaiReady, streamSid, starts, timers, updates>>
    /\ P0Unchanged

\* openai.on("close"): twilioConn.close()
P0OpenAIClose ==
    /\ IsP0 /\ Live(openaiWs)
    /\ openaiWs' = "CLOSED"
    /\ twilioWs' = closeWs(twilioWs)
    /\ out' = [On("openai:close") EXCEPT !.calls = <<"twilioWs.close">>]
    /\ UNCHANGED <<openaiReady, streamSid, starts, timers, updates>>
    /\ P0Unchanged

\* openai.on("error"): logged
P0OpenAIError ==
    /\ IsP0 /\ openaiWs \in {"CONNECTING", "OPEN", "CLOSING"}
    /\ openaiWs' = "CLOSING"
    /\ out' = On("openai:error")
    /\ UNCHANGED <<twilioWs, openaiReady, streamSid, starts, timers, updates>>
    /\ P0Unchanged

\* twilioConn.on("message"), case "start"
P0TwilioStart(sid) ==
    /\ IsP0 /\ Live(twilioWs)
    /\ streamSid' = sid
    /\ starts' = Cap2(starts + 1)
    /\ out' = On("start")
    /\ UNCHANGED <<twilioWs, openaiWs, openaiReady, timers, updates>>
    /\ P0Unchanged

\* twilioConn.on("message"), case "media"
P0TwilioMedia(hasPayload) ==
    /\ IsP0 /\ Live(twilioWs)
    /\ out' = IF openaiReady /\ openaiWs = "OPEN" /\ hasPayload
              THEN [On("media") EXCEPT !.oa = <<OaMsg("input_audio_buffer.append", 0)>>]
              ELSE On("media")
    /\ UNCHANGED <<twilioWs, openaiWs, openaiReady, streamSid, starts, timers, updates>>
    /\ P0Unchanged

\* twilioConn.on("message"), mark, stop, default and frames JSON.parse rejects
P0TwilioOther ==
    /\ IsP0 /\ Live(twilioWs)
    /\ out' = On("twilio:other")
    /\ UNCHANGED <<twilioWs, openaiWs, openaiReady, streamSid, starts, timers, updates>>
    /\ P0Unchanged

\* twilioConn.on("close"): openai.close()
P0TwilioClose ==
    /\ IsP0 /\ Live(twilioWs)
    /\ twilioWs' = "CLOSED"
    /\ openaiWs' = closeWs(openaiWs)
    /\ out' = [On("twilio:close") EXCEPT !.calls = <<"openaiWs.close">>]
    /\ UNCHANGED <<openaiReady, streamSid, starts, timers, updates>>
    /\ P0Unchanged

\* twilioConn.on("error"): openai.close()
P0TwilioError ==
    /\ IsP0 /\ Live(twilioWs)
    /\ twilioWs' = "CLOSING"
    /\ openaiWs' = closeWs(openaiWs)
    /\ out' = [On("twilio:error") EXCEPT !.calls = <<"openaiWs.close">>]
    /\ UNCHANGED <<openaiReady, streamSid, starts, timers, updates>>
    /\ P0Unchanged

InitP0 == variant = "part_000" /\ InitPlain

NextP0 ==
    \/ P0OpenAIOpen
    \/ P0SessionTimer
    \/ P0GreetingTimer
    \/ \E type \in {"unparseable", "response.output_audio.delta", "other"},
          hasDelta \in BOOLEAN : P0OpenAIMessage(type, hasDelta)
    \/ P0OpenAIClose
    \/ P0OpenAIError
    \/ \E sid \in StartSids : P0TwilioStart(sid)
    \/ \E hasPayload \in BOOLEAN : P0TwilioMedia(hasPayload)
    \/ P0TwilioOther
    \/ P0TwilioClose
    \/ P0TwilioError

SpecP0 == InitP0 /\ [][NextP0]_vars

(***************************************************************************)
(* Process start of part_000 (Fastify, lines 11-16 and 199-205) and of     *)
(* part_005 (lines 13-19 and 282): the module body runs the credential     *)
(* check, then registers the routes and starts listening                   *)
(***************************************************************************)
HasKeyCheck == variant \in {"part_000", "part_005"}

\* the module body without the OPENAI_API_KEY test
checkKey_skipped(apiKey) == TRUE

\* if (!OPENAI_API_KEY) { console.error(...); process.exit(1); }: TRUE when the
\* module body goes on past the test
checkKey(apiKey) == apiKey

\* the module body, run once: process.exit(1) or app.listen(...)
Startup ==
    /\ HasKeyCheck /\ running /\ ~listening
    /\ IF checkKey(env.apiKey)
       THEN listening' = TRUE /\ UNCHANGED running
       ELSE running' = FALSE /\ UNCHANGED listening
    /\ out' = On("startup")
    /\ UNCHANGED <<variant, env, twilioWs, bridgeVars, plainVars, conns, moduleOpenaiWs,
                   buffer, received, oaLog, timers, updates, codec>>

\* Twilio connects to /media-stream: the handler runs new WebSocket(...)
Accept ==
    /\ HasKeyCheck /\ running /\ listening
    /\ twilioWs = NULL
    /\ twilioWs' = "OPEN"
    /\ openaiWs' = "CONNECTING"
    /\ out' = On("connection")
    /\ UNCHANGED <<variant, env, bridgeVars, firstVars, p0Vars, codec, streamSid, openaiReady,
                   greeted, pendingAudio, outBuffer, paceTimer, arrived, twLog, starts,
                   inflight>>

InitStartup ==
    /\ variant \in {"part_000", "part_005"}
    /\ env \in [apiKey : BOOLEAN, twilioClient : {FALSE}, sms : {FALSE}]
    /\ twilioWs = NULL
    /\ BridgeIdle
    /\ FirstIdle
    /\ CodecIdle
    /\ PlainIdle
    /\ buffer = <<>> /\ received = 0 /\ oaLog = <<>> /\ timers = {} /\ updates = 0
    /\ listening = FALSE
    /\ out = NoOut

NextStartup ==
    \/ Startup
    \/ Accept
    \/ NextP0
    \/ NextP5

SpecStartup == InitStartup /\ [][NextStartup]_vars

(***************************************************************************)
(* src/server.js, lines 561-584: the G.711 mu-law codec, in the 32-bit     *)
(* integer arithmetic of the JavaScript operators                          *)
(***************************************************************************)
Bytes == 0..255

\* bit k of a two's-complement x: (x >> k) & 1
Bit(x, k) == (x \div Pow2(k)) % 2

\* muLawDecode(uVal)
muLawDecode(uVal) ==
    LET u        == 255 - uVal                      \* ~uVal & 0xff
        sign     == Bit(u, 7) * 128                 \* uVal & 0x80
        exponent == (u \div 16) % 8                 \* (uVal >> 4) & 0x07
        mantissa == u % 16                          \* uVal & 0x0f
        sample   == (mantissa * 16 + 8) * Pow2(exponent + 3) - 132
    IN  IF sign # 0 THEN -sample ELSE sample

\* the loop of muLawEncode that finds the exponent; expMask is 1 << bit
RECURSIVE encodeLoop(_, _, _)
encodeLoop(pcmVal, bit, exponent) ==
    IF Bit(pcmVal, bit) = 0 /\ exponent > 0
    THEN encodeLoop(pcmVal, bit - 1, exponent - 1)
    ELSE exponent

\* muLawEncode(pcmVal)
muLawEncode(pcmVal) ==
    LET BIAS     == 132
        sign     == Bit(pcmVal, 15) * 128           \* (pcmVal >> 8) & 0x80
        mag      == IF sign # 0 THEN -pcmVal ELSE pcmVal
        biased   == mag + BIAS
        clipped  == IF biased > 32767 THEN 32767 ELSE biased
        exponent == encodeLoop(clipped, 14, 7)
        mantissa == (clipped \div Pow2(IF exponent = 0 THEN 4 ELSE exponent + 3)) % 16
    IN  255 - (sign + exponent * 16 + mantissa)     \* ~(...) & 0xff

CodecUnchanged ==
    UNCHANGED <<variant, env, twilioWs, bridgeVars, plainVars, firstVars, p0Vars>>

\* sample = muLawDecode(uVal)
CodecDecode ==
    /\ codec.stage = "byte"
    /\ codec' = [codec EXCEPT !.stage = "decoded", !.pcmVal = muLawDecode(codec.uVal)]
    /\ out' = On("muLawDecode")
    /\ CodecUnchanged

\* muLawEncode(sample)
CodecEncode ==
    /\ codec.stage = "decoded"
    /\ codec' = [codec EXCEPT !.stage = "encoded", !.back = muLawEncode(codec.pcmVal)]
    /\ out' = On("muLawEncode")
    /\ CodecUnchanged

InitCodec ==
    /\ variant = "bridge"
    /\ env = [apiKey |-> TRUE, twilioClient |-> FALSE, sms |-> FALSE]
    /\ twilioWs = NULL
    /\ BridgeIdle
    /\ FirstIdle
    /\ PlainIdle
    /\ P0Idle
    /\ \E b \in Bytes : codec = [stage |-> "byte", uVal |-> b, pcmVal |-> 0, back |-> 0]
    /\ out = NoOut

NextCodec ==
    \/ CodecDecode
    \/ CodecEncode

SpecCodec == InitCodec /\ [][NextCodec]_vars

(***************************************************************************)
(* Properties                                                              *)
(***************************************************************************)
NoDup(q) == \A j, k \in 1..Len(q) : j # k => q[j] # q[k]

OaTypes == Types(out.oa)

SentMedia == \E k \in 1..Len(out.tw) : out.tw[k].event = "media"

\* the Bridge whose callback ran last, 0 if none
Ran(i) == IsBridge /\ out.by = i /\ i \in 1..Len(bridges)

\* C1: in part_004 and part_005 every media message sent to Twilio is sent
\* after a 'start' event has been handled and carries the streamSid that
\* 'start' event gave, never null.
C1_MediaCarriesStartSid ==
    (IsP4 \/ IsP5) =>
        \A k \in 1..Len(out.tw) :
            out.tw[k].event = "media" =>
                /\ starts > 0
                /\ out.tw[k].streamSid \in StartSids
                /\ out.tw[k].streamSid = streamSid

C1_Witness ==
    /\ IsP5 /\ out.ev = "timer:pace" /\ SentMedia
    /\ arrived > 0 /\ starts > 0

\* C2: in part_004 the deltas received before 'start' are all queued, and
\* the deltas sent to Twilio followed by the deltas still queued are always
\* D1..Dn in arrival order; a 'start' handled with the Twilio socket open
\* leaves nothing queued.
C2_PreStartAudioFlushedInOrder ==
    IsP4 =>
        /\ twLog \o pendingAudio = [k \in 1..arrived |-> k]
        /\ starts = 0 => pendingAudio = [k \in 1..arrived |-> k]
        /\ (out.ev = "start" /\ streamSid # NULL /\ twilioWs = "OPEN")
              => pendingAudio = <<>>

C2_Witness ==
    /\ IsP4 /\ out.ev = "start" /\ Len(out.tw) >= 2
    /\ Payloads(out.tw) = <<1, 2>>
    /\ pendingAudio = <<>>

\* C3: in part_004 no delta is sent to Twilio twice, a queued delta is not
\* one already sent, and whenever the streamSid is known and the Twilio
\* socket is open the queue is empty.
C3_FlushedExactlyOnce ==
    IsP4 =>
        /\ NoDup(twLog)
        /\ \A k \in 1..Len(pendingAudio) : ~Has(twLog, pendingAudio[k])
        /\ (streamSid # NULL /\ twilioWs = "OPEN") => pendingAudio = <<>>

C3_Witness ==
    /\ IsP4 /\ out.ev = "start" /\ starts = 2
    /\ Len(twLog) >= 2 /\ out.tw = <<>>
    /\ streamSid # NULL /\ twilioWs = "OPEN"

\* C4: in the Bridge class, once the fallback path has been taken exactly one
\* fallback notice (the TwiML call update) has been issued.
C4_ExactlyOneFallbackNotice ==
    IsBridge =>
        \A i \in 1..Len(bridges) :
            bridges[i].fallbackTriggered => hist[i].fallbackNotices = 1

\* C5: in the Bridge class, a callback that ends with fallbackTriggered set
\* has sent no media frame to the Twilio socket.
C5_NoMediaAfterFallback ==
    \A i \in 1..Len(bridges) :
        (Ran(i) /\ bridges[i].fallbackTriggered) => ~SentMedia

C5_Witness ==
    \E i \in 1..Len(bridges) :
        /\ Ran(i) /\ bridges[i].fallbackTriggered
        /\ out.ev = "response.audio.delta"
        /\ bridges[i].openaiWs = "CLOSING"

\* C6: in the Bridge class teardown is idempotent: on one call the summary
\* notification runs at most once, the fallback notice is issued at most
\* once and close() is called at most once on each socket.
C6_TeardownOnce ==
    IsBridge =>
        /\ twCloseCalls <= 1
        /\ \A i \in 1..Len(hist) :
              /\ hist[i].summaryCalls <= 1
              /\ hist[i].fallbackNotices <= 1
              /\ hist[i].oaCloseCalls <= 1

\* C7: at most one response is in flight: no response.create is sent while
\* an earlier one has not been answered by a response-complete event.
C7_OneResponseInFlight ==
    /\ \A i \in 1..Len(hist) : hist[i].inflight <= 1
    /\ inflight <= 1

\* bytes of the appends among the first n messages of s
RECURSIVE AppendedIn(_, _)
AppendedIn(s, n) ==
    IF n = 0 THEN 0
    ELSE AppendedIn(s, n - 1)
         + (IF s[n].type = "input_audio_buffer.append" THEN s[n].bytes ELSE 0)

\* C8: in the Bridge class a callback sends at most one commit, only with
\* bytesSinceCommit > 0 at that point, and leaves bytesSinceCommit at 0;
\* bytesSinceCommit grows only by an append.
C8_CommitStep ==
    \A i \in 1..Len(bridges') :
        LET before == IF i <= Len(bridges) THEN bridges[i].bytesSinceCommit ELSE 0
            types  == Types(out'.oa)
            pos    == FirstPos(types, "input_audio_buffer.commit")
        IN  out'.by = i =>
              /\ Has(types, "input_audio_buffer.commit") =>
                    /\ CountOf(types, "input_audio_buffer.commit") = 1
                    /\ before + AppendedIn(out'.oa, pos - 1) > 0
                    /\ bridges'[i].bytesSinceCommit = 0
              /\ bridges'[i].bytesSinceCommit > before =>
                    Has(types, "input_audio_buffer.append")

C8_CommitOnlyWithAudio == [][C8_CommitStep]_vars

C8_Witness ==
    \E i \in 1..Len(bridges) :
        /\ Ran(i) /\ out.ev = "stop"
        /\ Has(OaTypes, "input_audio_buffer.commit")
        /\ bridges[i].bytesSinceCommit = 0

\* C9: in the Bridge class a turn finalization (commit followed by
\* response.create) is never issued by the callback that handles the arrival
\* of a caller audio frame.
C9_NoFinalizationOnMedia ==
    IsBridge =>
        ~(/\ out.ev = "media"
          /\ Has(OaTypes, "input_audio_buffer.commit")
          /\ Has(OaTypes, "response.create"))

\* C10: in the Bridge class an input_audio_buffer.append is sent only by a
\* Bridge whose OpenAI socket is open and whose session.update was sent by an
\* earlier callback.
C10_NoAppendBeforeConfigured ==
    \A i \in 1..Len(bridges) :
        (Ran(i) /\ Has(OaTypes, "input_audio_buffer.append")) =>
            /\ hist[i].configured
            /\ ~Has(OaTypes, "session.update")
            /\ bridges[i].openaiWs = "OPEN"

C10_Witness ==
    \E i \in 1..Len(bridges) :
        /\ Ran(i) /\ out.ev = "media" /\ out.oa = <<>>
        /\ bridges[i].openaiWs = "CONNECTING"
        /\ bridges[i].warnedOpenAiNotReady

\* C11: in the Bridge class, a 'stop' handled with bytesSinceCommit > 0 and
\* the OpenAI socket open sends input_audio_buffer.commit on the OpenAI
\* socket and then calls close() on it, in that order.
C11_StopStep ==
    (/\ IsBridge /\ bridge # 0 /\ out'.ev = "stop" /\ out'.by = bridge
     /\ bridges[bridge].bytesSinceCommit > 0
     /\ bridges[bridge].openaiWs = "OPEN")
    => LET types == Types(out'.oa)
       IN  /\ Has(types, "input_audio_buffer.commit")
           /\ Has(types, "close")
           /\ FirstPos(types, "input_audio_buffer.commit") < FirstPos(types, "close")
           /\ bridges'[bridge].bytesSinceCommit = 0

C11_StopFlushesBeforeClose == [][C11_StopStep]_vars

C11_Witness ==
    /\ Ran(bridge) /\ out.ev = "stop"
    /\ OaTypes = <<"input_audio_buffer.commit", "close">>
    /\ bridges[bridge].openaiWs = "CLOSING"

\* the Bridges of the connection for which new WebSocket(OPENAI_WS_URL) ran
Connections == {i \in 1..Len(bridges) : bridges[i].openaiWs # "null"}

\* C12: in the Bridge variant at most one OpenAI connection is opened over
\* the lifetime of a Twilio connection, whatever frames and socket events it
\* is sent, a repeated 'start' included.
C12_OneOpenAIConnection ==
    IsBridge => Cardinality(Connections) <= 1

\* C13: in the first bridge of server.js caller audio received by a callback
\* of one connection (input_audio_buffer.append) is delivered to an open
\* OpenAI socket only if that socket was made for the same connection.
C13_AudioStaysOnOwnCall ==
    IsFirst =>
        \A j \in 1..Len(out.oa) :
            (/\ out.oa[j].type = "input_audio_buffer.append"
             /\ conns[out.oa[j].to].openaiWs = "OPEN")
            => out.oa[j].to = out.by

\* C14: in part_004 a callback sends at most one response.create, only
\* while greeted is false, and sets greeted, which is never reset: at most
\* one greeting is sent per call.
C14_GreetStep ==
    IsP4 =>
        /\ CountOf(Types(out'.oa), "response.create") <= 1
        /\ Has(Types(out'.oa), "response.create") => (~greeted /\ greeted')
        /\ greeted => greeted'

C14_AtMostOneGreeting == [][C14_GreetStep]_vars

C14_Witness ==
    /\ IsP4 /\ out.ev = "start" /\ starts = 2 /\ greeted /\ openaiReady
    /\ out.oa = <<>>

\* the events of part_005 that start teardown
P5Triggers == {"stop", "twilio:close", "twilio:error", "openai:close"}

\* C15: in part_005 a teardown callback ('stop', Twilio close, Twilio error,
\* OpenAI close) leaves the pacer interval cancelled and neither socket
\* open or connecting without a close() request; from the first of them on
\* the Twilio socket is not open and no pacer tick sends a frame.
C15_TeardownStopsPacer ==
    IsP5 =>
        /\ out.ev \in P5Triggers =>
              /\ ~paceTimer
              /\ twilioWs \in {"CLOSING", "CLOSED"}
              /\ openaiWs \in {"CLOSING", "CLOSED"}
        /\ (out.ev = "timer:pace" /\ SentMedia) => twilioWs = "OPEN"
        /\ twilioWs = "OPEN" => openaiWs # "CLOSED"

C15_Witness ==
    /\ IsP5 /\ out.ev = "stop" /\ "stopPacer" = out.calls[1]
    /\ starts > 0 /\ outBuffer # <<>> /\ ~paceTimer
    /\ twilioWs = "CLOSING" /\ openaiWs = "CLOSING"

\* C16: in part_005 the 'error' callback of a socket does what its 'close'
\* callback does: after an OpenAI socket error the pacer is stopped and
\* close() was called on the Twilio socket; after a Twilio socket error the
\* pacer is stopped and close() was called on the OpenAI socket.
C16_ErrorActsAsClose ==
    IsP5 =>
        /\ out.ev = "openai:error" =>
              /\ ~paceTimer
              /\ Has(out.calls, "twilioWs.close")
              /\ twilioWs # "OPEN"
        /\ out.ev = "twilio:error" =>
              /\ ~paceTimer
              /\ Has(out.calls, "openaiWs.close")
              /\ openaiWs \notin {"CONNECTING", "OPEN"}

\* C17: in the Bridge variant, once the Twilio socket of a call has closed
\* or failed, the OpenAI socket of every Bridge of that call is eventually
\* closed.
C17_OpenAIClosedAfterHangup ==
    (IsBridge /\ twilioWs \in {"CLOSING", "CLOSED"} /\ out.ev \in {"twilio:close", "twilio:error"})
        ~> (\A i \in 1..Len(bridges) : bridges[i].openaiWs \in {"null", "CLOSED"})

\* C18: in the Bridge class, a callback of a Bridge that has handled 'stop'
\* (closedByStop is set) sends no media frame to the Twilio socket.
C18_NoMediaAfterStop ==
    \A i \in 1..Len(bridges) :
        (Ran(i) /\ bridges[i].closedByStop) => ~SentMedia

\* C19: in part_005 a pacer tick sends at most one media frame, and every
\* media frame sent to Twilio carries exactly OUT_FRAME_SAMPLES bytes.
C19_FrameIs160Bytes ==
    IsP5 =>
        /\ \A k \in 1..Len(out.tw) :
              /\ out.tw[k].event = "media"
              /\ out.ev = "timer:pace"
              /\ Len(out.tw[k].payload) = OUT_FRAME_SAMPLES
        /\ Len(out.tw) <= 1

\* a frame begun with a chunk shorter than a frame and padded with 0xFF
C19_Witness ==
    /\ IsP5 /\ out.ev = "timer:pace" /\ Len(out.tw) = 1
    /\ \E k \in 1..50 : out.tw[1].payload[k] # 255
    /\ \A k \in 101..OUT_FRAME_SAMPLES : out.tw[1].payload[k] = 255

\* the bytes queued in outBuffer, in order
RECURSIVE Flatten(_)
Flatten(buf) == IF buf = <<>> THEN <<>> ELSE Head(buf) \o Flatten(Tail(buf))

Silence(n) == [k \in 1..n |-> 255]

\* a pacer tick that runs with the streamSid known and the Twilio socket open
P5ActiveTick ==
    /\ IsP5 /\ out'.ev = "timer:pace" /\ paceTimer
    /\ streamSid # NULL /\ twilioWs = "OPEN"

\* a tick with at least a frame queued sends the first OUT_FRAME_SAMPLES
\* queued bytes as one frame and leaves the rest queued
P5FullFrameStep ==
    (P5ActiveTick /\ Len(Flatten(outBuffer)) >= OUT_FRAME_SAMPLES) =>
        /\ Len(out'.tw) = 1
        /\ out'.tw[1].payload = SubSeq(Flatten(outBuffer), 1, OUT_FRAME_SAMPLES)
        /\ Flatten(outBuffer') = SubSeqFrom(Flatten(outBuffer), OUT_FRAME_SAMPLES + 1)

\* C20 as stated: in part_005, with N x 160 bytes queued at once and nothing
\* more, each tick sends the next 160 queued bytes as one frame (N frames in
\* N ticks), and a tick that finds the queue empty sends no frame.
C20_OriginalStep ==
    /\ P5FullFrameStep
    /\ (P5ActiveTick /\ arrived > 0 /\ outBuffer = <<>>) =>
          (out'.tw = <<>> /\ outBuffer' = <<>>)

C20_ExactlyNFrames == [][C20_OriginalStep]_vars

\* C20 as amended: each tick sends the next 160 queued bytes as one frame (N
\* frames in N ticks), and a tick that finds the queue empty sends one frame
\* of 160 silence bytes (0xFF).
C20_AmendedStep ==
    /\ P5FullFrameStep
    /\ (P5ActiveTick /\ outBuffer = <<>>) =>
          /\ Len(out'.tw) = 1
          /\ out'.tw[1].payload = Silence(OUT_FRAME_SAMPLES)
          /\ outBuffer' = <<>>

C20_NFramesThenSilence == [][C20_AmendedStep]_vars

\* the tick that sent the last frame of the burst
C20_Witness ==
    /\ IsP5 /\ out.ev = "timer:pace" /\ Len(out.tw) = 1
    /\ arrived = 1 /\ outBuffer = <<>>
    /\ \A k \in 1..OUT_FRAME_SAMPLES : out.tw[1].payload[k] # 255

\* C21: in part_005 a tick that finds k queued bytes, 0 < k < 160, sends one
\* frame made of those k bytes in order followed by 160 - k bytes 0xFF, and
\* leaves the queue empty.
C21_PartialStep ==
    LET q == Flatten(outBuffer)
    IN  (P5ActiveTick /\ Len(q) > 0 /\ Len(q) < OUT_FRAME_SAMPLES) =>
            /\ Len(out'.tw) = 1
            /\ out'.tw[1].payload = q \o Silence(OUT_FRAME_SAMPLES - Len(q))
            /\ outBuffer' = <<>>

C21_PartialFramePadded == [][C21_PartialStep]_vars

\* the tick that sent the 40 bytes left of a 200-byte chunk
C21_Witness ==
    /\ IsP5 /\ out.ev = "timer:pace" /\ Len(out.tw) = 1
    /\ outBuffer = <<>> /\ arrived = 1
    /\ \A k \in 1..40 : out.tw[1].payload[k] # 255
    /\ \A k \in 41..OUT_FRAME_SAMPLES : out.tw[1].payload[k] = 255

\* C22: in part_005 a tick that fires while the Twilio socket is not open
\* sends nothing and removes a frame's worth of bytes (all of them if fewer
\* are queued) from the queue.
C22_DropStep ==
    LET q == Flatten(outBuffer)
    IN  (/\ IsP5 /\ out'.ev = "timer:pace" /\ paceTimer
         /\ twilioWs # "OPEN" /\ Len(q) > 0)
        => /\ out'.tw = <<>>
           /\ Flatten(outBuffer') = SubSeqFrom(q, Min(OUT_FRAME_SAMPLES, Len(q)) + 1)

C22_ClosedTickDropsFrame == [][C22_DropStep]_vars

\* C23: in part_005 the bytes sent to Twilio are the bytes pushed to
\* outBuffer, in order, none twice and none skipped.  Step by step: a tick
\* sends at most one frame, whose bytes before the padding are the first
\* queued bytes, and removes exactly those from the front of the queue; an
\* audio delta only adds bytes at the back; no other callback touches the
\* queue or sends media.
C23_OrderStep ==
    LET q  == Flatten(outBuffer)
        q2 == Flatten(outBuffer')
    IN  IsP5 =>
          CASE out'.ev = "timer:pace" ->
                 LET n == IF out'.tw = <<>> THEN 0 ELSE Min(OUT_FRAME_SAMPLES, Len(q))
                 IN  /\ Len(out'.tw) <= 1
                     /\ q2 = SubSeqFrom(q, n + 1)
                     /\ out'.tw # <<>> =>
                           /\ SubSeq(out'.tw[1].payload, 1, n) = SubSeq(q, 1, n)
                           /\ SubSeqFrom(out'.tw[1].payload, n + 1)
                                 = Silence(OUT_FRAME_SAMPLES - n)
            [] out'.ev \in {"response.output_audio.delta", "response.audio.delta"} ->
                 /\ out'.tw = <<>>
                 /\ Len(q2) >= Len(q)
                 /\ SubSeq(q2, 1, Len(q)) = q
            [] OTHER ->
                 /\ out'.tw = <<>>
                 /\ outBuffer' = outBuffer

C23_PacerKeepsByteOrder == [][C23_OrderStep]_vars

\* the tick that sent two 50-byte chunks in one frame
C23_Witness ==
    /\ IsP5 /\ out.ev = "timer:pace" /\ Len(out.tw) = 1
    /\ outBuffer = <<>> /\ arrived = 2
    /\ \A k \in 1..100 : out.tw[1].payload[k] # 255
    /\ \A k \in 101..OUT_FRAME_SAMPLES : out.tw[1].payload[k] = 255

C25_BadFrameStep ==
    IsBridge /\ out'.ev \in {"twilio:unparseable", "unparseable"} =>
        /\ UNCHANGED <<twilioWs, bridge, bridges, twCloseCalls>>
        /\ out'.oa = <<>> /\ out'.tw = <<>> /\ out'.calls = <<>>

C25_BadFrameDropped == [][C25_BadFrameStep]_vars

C25_Witness ==
    /\ Ran(1) /\ out.ev = "unparseable"
    /\ bridges[1].openaiWs = "OPEN" /\ twilioWs = "OPEN"
    /\ hist[1].configured /\ bridges[1].bytesSinceCommit > 0

\* C26: a callback of the Bridge variant that receives a Twilio event the
\* switch ignores (connected, mark, dtmf, or a kind it does not name) or an
\* OpenAI message of a type no branch of the handler names changes no Bridge
\* field, sends nothing on either socket and closes neither.
C26_IgnoredStep ==
    IsBridge /\ out'.ev \in {"mark", "other"} =>
        /\ UNCHANGED <<twilioWs, bridge, bridges, twCloseCalls>>
        /\ out'.oa = <<>> /\ out'.tw = <<>> /\ out'.calls = <<>>

C26_UnknownEventsIgnored == [][C26_IgnoredStep]_vars

C26_Witness ==
    /\ Ran(1) /\ out.ev = "mark"
    /\ bridges[1].openaiWs = "OPEN" /\ twilioWs = "OPEN"
    /\ bridges[1].openaiReady /\ bridges[1].bytesSinceCommit > 0

\* C27: in the Fastify bridge of part_000 no input_audio_buffer.append and no
\* response.create is sent on the OpenAI socket before session.update has
\* been sent on it, and session.update is sent at most once.  Only messages
\* sent while the socket is open count: the others are never transmitted.
C27_SessionUpdateFirst ==
    IsP0 /\ openaiWs = "OPEN" =>
        /\ updates <= 1
        /\ (Has(OaTypes, "input_audio_buffer.append") \/ Has(OaTypes, "response.create"))
              => updates >= 1

\* C28: in part_005 and in the Fastify variant of part_000, when
\* OPENAI_API_KEY is missing the server never listens, no media-stream
\* connection is accepted, no OpenAI socket is created, and the process has
\* exited once the module body has run.
C28_NoKeyNoServer ==
    HasKeyCheck /\ ~env.apiKey =>
        /\ ~listening
        /\ twilioWs = NULL /\ openaiWs = NULL
        /\ out.ev = "startup" => ~running

C28_Witness ==
    /\ HasKeyCheck /\ ~env.apiKey
    /\ out.ev = "startup" /\ ~running /\ ~listening

\* the sign and the magnitude step (0..127) a mu-law byte stands for
CodeSign(b) == (255 - b) \div 128
CodeStep(b) == (255 - b) % 128
Dist(x, y) == IF x >= y THEN x - y ELSE y - x

\* C29: muLawDecode returns a value of the signed 16-bit range for every byte.
C29_DecodeIn16Bits ==
    codec.stage \in {"decoded", "encoded"} =>
        codec.pcmVal \in -32768..32767

\* C30: muLawEncode(muLawDecode(b)) is b, or a code of the same sign at most
\* one quantization step from b; the two zero codes count as equal.
C30_RoundTripWithinOneStep ==
    codec.stage = "encoded" =>
        \/ codec.back = codec.uVal
        \/ CodeStep(codec.back) = 0 /\ CodeStep(codec.uVal) = 0
        \/ /\ CodeSign(codec.back) = CodeSign(codec.uVal)
           /\ Dist(CodeStep(codec.back), CodeStep(codec.uVal)) <= 1

\* the values node computes for the two ends and the middle of the table
CodecTable ==
    /\ muLawDecode(0) = -253820 /\ muLawEncode(-253820) = 159
    /\ muLawDecode(15) = -8060 /\ muLawEncode(-8060) = 31
    /\ muLawDecode(128) = 253820
    /\ muLawDecode(239) = -4 /\ muLawEncode(-4) = 119
    /\ muLawDecode(240) = 1852 /\ muLawEncode(1852) = 192
    /\ muLawDecode(255) = -68 /\ muLawEncode(-68) = 115
    /\ muLawEncode(-237436) = 135 /\ muLawEncode(-221052) = 0

\* C31: in part_004 a callback sends the greeting response.create only in a
\* state where the 'start' event has set streamSid and the OpenAI socket has
\* opened (openaiReady).
C31_GreetingNeedsBothSides ==
    IsP4 /\ Has(OaTypes, "response.create") =>
        streamSid # NULL /\ openaiReady

\* C32: in part_005 a callback sends response.create exactly when it handles
\* input_audio_buffer.speech_stopped, and then sends exactly one; no other
\* callback, and so none before the first speech_stopped, sends one.
C32_ReplyOnlyAfterSpeechStopped ==
    IsP5 =>
        /\ Has(OaTypes, "response.create")
              <=> out.ev = "input_audio_buffer.speech_stopped"
        /\ CountOf(OaTypes, "response.create") <= 1

C32_Witness ==
    /\ IsP5 /\ out.ev = "input_audio_buffer.speech_stopped"
    /\ CountOf(OaTypes, "response.create") = 1
    /\ openaiWs = "OPEN" /\ streamSid # NULL /\ inflight = 2

\* C33: in part_004, once 'start' and 'open' have both been handled, in either
\* order, and both sockets are open, the greeting has been sent.  The bridge
\* sets no timer and greets only inside a callback, so a greeting that the
\* second of the two callbacks did not send is sent by no later step of the
\* bridge itself.
C33_GreetedOnceBothReady ==
    (/\ IsP4 /\ streamSid \in StartSids /\ openaiReady
     /\ twilioWs = "OPEN" /\ openaiWs = "OPEN")
        => greeted

\* C34: once a Bridge has handled 'stop' (closedByStop set, fallback not
\* triggered), no later callback sets its fallbackTriggered or issues the
\* fallback notice.
C34_StopStep ==
    IsBridge =>
        \A i \in 1..Len(bridges) :
            bridges[i].closedByStop /\ ~bridges[i].fallbackTriggered =>
                /\ ~bridges'[i].fallbackTriggered
                /\ out'.by = i => ~Has(out'.calls, "calls.update")

C34_NoFallbackAfterStop == [][C34_StopStep]_vars

\* C35: fallbackTriggered, once set on a Bridge, stays set, and no later
\* callback of that Bridge sends a message on its OpenAI socket.
C35_FallbackStep ==
    IsBridge =>
        \A i \in 1..Len(bridges) :
            bridges[i].fallbackTriggered =>
                /\ bridges'[i].fallbackTriggered
                /\ out'.by = i => out'.oa = <<>>

C35_SilentAfterFallback == [][C35_FallbackStep]_vars

C35_Witness ==
    /\ Ran(1) /\ bridges[1].fallbackTriggered
    /\ out.ev = "media" /\ out.oa = <<>>
    /\ bridges[1].bytesSinceCommit > 0

\* the bytes appended and not yet committed after the sends oa, given acc
\* such bytes before them
RECURSIVE Uncommitted(_, _)
Uncommitted(oa, acc) ==
    IF oa = <<>> THEN acc
    ELSE Uncommitted(Tail(oa),
             CASE Head(oa).type = "input_audio_buffer.commit" -> 0
               [] Head(oa).type = "input_audio_buffer.append" -> acc + Head(oa).bytes
               [] OTHER -> acc)

\* C36: every callback leaves a Bridge's bytesSinceCommit equal to the PCM
\* bytes it has appended to OpenAI since its last commit (0 for a new
\* Bridge), and below commitThresholdBytes: a media frame that reaches the
\* threshold commits and resets it before the handler returns.
C36_BytesStep ==
    IsBridge =>
        \A i \in 1..Len(bridges') :
            LET before == IF i <= Len(bridges) THEN bridges[i].bytesSinceCommit ELSE 0
                sent   == IF out'.by = i THEN out'.oa ELSE <<>>
            IN  /\ bridges'[i].bytesSinceCommit = Uncommitted(sent, before)
                /\ bridges'[i].bytesSinceCommit < commitThresholdBytes

C36_BytesSinceCommitTracked == [][C36_BytesStep]_vars

C36_Witness ==
    /\ Ran(1) /\ out.ev = "media"
    /\ Types(out.oa) = <<"input_audio_buffer.append", "input_audio_buffer.commit",
                         "response.create">>
    /\ out.oa[1].bytes < commitThresholdBytes
    /\ bridges[1].bytesSinceCommit = 0

\* the OpenAI messages that report a misunderstanding
Misunderstood ==
    {"conversation.item.input_audio_transcription.failed", "response.error"}

\* C37: a callback that handles transcription-failed or response.error
\* requests a reprompt only if none has been requested since the last
\* successful transcription (repromptedAfterMisunderstanding false), requests
\* at most one and then sets the flag; only a successful transcription clears
\* the flag.  So at most one reprompt lies between two transcriptions.
C37_RepromptStep ==
    IsBridge =>
        \A i \in 1..Len(bridges) :
            LET was == bridges[i].repromptedAfterMisunderstanding
                is  == bridges'[i].repromptedAfterMisunderstanding
            IN  /\ (out'.by = i /\ out'.ev \in Misunderstood) =>
                      /\ CountOf(Types(out'.oa), "response.create") <= 1
                      /\ Has(Types(out'.oa), "response.create") => ~was /\ is
                /\ (was /\ ~is) =>
                      /\ out'.by = i
                      /\ out'.ev = "conversation.item.input_audio_transcription.completed"

C37_AtMostOneReprompt == [][C37_RepromptStep]_vars

C37_Witness ==
    /\ Ran(1) /\ out.ev \in Misunderstood /\ out.oa = <<>>
    /\ bridges[1].repromptedAfterMisunderstanding
    /\ bridges[1].openaiWs = "OPEN" /\ ~bridges[1].fallbackTriggered
    /\ hist[1].inflight > 0

\* C38: in the Fastify bridge of part_000 a timer callback set by 'open'
\* calls send() on the OpenAI socket only while that socket is open.
C38_TimersSendOnlyWhenOpen ==
    (/\ IsP0 /\ out.ev \in {"timer:sessionUpdate", "timer:greeting"}
     /\ out.oa # <<>>)
        => openaiWs = "OPEN"

\* C39: in part_005 setInterval is called only by a 'start' callback that
\* finds no timer set, once, and leaves one set; a timer that is set goes
\* away only through stopPacer; so at most one interval timer is active, a
\* repeated 'start' adds none, a 'start' after stopPacer adds exactly one,
\* and a tick sends at most one frame.
C39_PacerStep ==
    IsP5 =>
        /\ CountOf(out'.calls, "setInterval") <= 1
        /\ Has(out'.calls, "setInterval") => ~paceTimer /\ paceTimer'
        /\ (~paceTimer /\ paceTimer') =>
              out'.ev = "start" /\ Has(out'.calls, "setInterval")
        /\ (paceTimer /\ ~paceTimer') => Has(out'.calls, "stopPacer")
        /\ out'.ev = "timer:pace" => Len(out'.tw) <= 1

C39_OnePacerTimer == [][C39_PacerStep]_vars

C39_Witness ==
    /\ IsP5 /\ out.ev = "start" /\ starts = 2
    /\ out.calls = <<"setInterval">> /\ paceTimer

====
